---- MODULE Spec2Model ----
(***************************************************************************)
(* FinancialTool: the period calendar (frontend/src/utils/dateUtils.ts),   *)
(* the financial calculations (frontend/src/utils/calculations.ts), the    *)
(* database module and the API routes of the backend, the DatabaseManager  *)
(* (backend/src/utils/database.ts) and the two entry forms of the          *)
(* frontend.                                                               *)
(*                                                                         *)
(* A JavaScript Date is modelled as the UTC instant it holds, a record     *)
(* [day, ms]: whole days since 1 January of EpochYear (UTC) and the        *)
(* millisecond within that day.  The local time zone is a fixed offset of  *)
(* tz minutes (local = UTC + tz).  Months are numbered 0..11 as in JS.     *)
(* Amounts are exact integers (minor units); ratios are exact fractions.   *)
(***************************************************************************)
EXTENDS Integers, Sequences, FiniteSets, TLC

VARIABLES
  tz,                \* the machine's time-zone offset, minutes east of UTC
  clock,             \* the wall clock, a Date
  ticks,             \* how often the clock advanced during the running call
  pc,                \* position of the running call
  unit,              \* getPeriodInfo's argument: "month", "quarter", "year"
  now,               \* getPeriodInfo: const now = new Date()           (line 70)
  current,           \* getPeriodInfo: const current = getCurrentX()    (74/86/98)
  periodInfo,        \* the PeriodInfo returned by getPeriodInfo
  transactions,      \* the Transaction[] handed to the calculations
  periodRange,       \* calculateFinancialSummary's second argument
  budgets,           \* calculateBudgetPerformance's second argument
  summary,           \* result of calculateFinancialSummary
  budgetPerformance, \* result of calculateBudgetPerformance
  trends,            \* result of calculateSpendingTrends
  insights,          \* result of generateSpendingInsights
  db,                \* database.ts: let db (line 31), the module-level handle
  wages,             \* rows of the wages table, in rowid order
  expenses,          \* rows of the expenses table, in rowid order
  categories,        \* rows of the categories table, in rowid order
  timestamp,         \* SQLite CURRENT_TIMESTAMP, in whole seconds
  request,           \* the last call made to the backend and its argument
  response,          \* what that call returned, threw or answered
  calls,             \* database.ts: the call each concurrent caller is in
  connections,       \* one entry per settled open(): is the connection open
  opens,             \* open() invocations since the last closeDatabase
  schema,            \* the tables of database.ts exist in the file
  manager,           \* utils/database.ts: the DatabaseManager singleton
  forms,             \* the React state of the wage and the expense form
  network            \* the fetch exchanges of the forms that are in flight

vars == <<tz, clock, ticks, pc, unit, now, current, periodInfo, transactions,
          periodRange, budgets, summary, budgetPerformance, trends, insights,
          db, wages, expenses, categories, timestamp, request, response,
          calls, connections, opens, schema, manager, forms, network>>

calendarVars == <<tz, clock, ticks, unit, now, current, periodInfo>>
calcVars == <<transactions, periodRange, budgets, summary, budgetPerformance, trends>>
insightVars == <<insights>>
storeVars == <<db, wages, expenses, categories, timestamp, request, response>>
handleVars == <<calls, connections, opens, schema>>
managerVars == <<manager>>
formVars == <<forms, network>>
appVars == <<handleVars, managerVars, formVars>>

(***************************************************************************)
(* Bounds of the model.                                                    *)
(***************************************************************************)
FirstYear == 2023
NumYears == 2
MaxTicks == 1
MaxTxns == 3
MaxCalcTxns == 3
MaxTopTxns == 6

EpochYear == FirstYear - 1
LastYear == FirstYear + NumYears - 1
Years == EpochYear .. (LastYear + 1)
Months == 0 .. 11
MsPerDay == 24 * 60 * 60 * 1000
MsPerMinute == 60 * 1000
TzOffsets == {-300, 0, 120}
Units == {"month", "quarter", "year"}
None == [none |-> TRUE]

\* The backend before its first call: no handle, no table, nothing asked.
InitStore ==
  /\ db = None
  /\ wages = <<>>
  /\ expenses = <<>>
  /\ categories = <<>>
  /\ timestamp = 0
  /\ request = None
  /\ response = None

\* Bound of the connections the callers of database.ts open, and of those
\* the DatabaseManager opens.
MaxOpens == 2

\* Two callers of database.ts whose calls overlap.
Callers == {"first", "second"}
Idle == [pc |-> "idle"]
Forms == {"wage", "expense"}

\* useState(null), useState(false), useState([]) of the two form components.
InitialFormState(form) ==
  IF form = "wage"
    THEN [isLoading |-> FALSE, message |-> [type |-> "null"], currentWage |-> [type |-> "null"]]
    ELSE [isLoading |-> FALSE, message |-> [type |-> "null"], recentExpenses |-> <<>>]

\* Before anything runs: no call in progress, no connection opened, an
\* empty database file, a DatabaseManager that was not initialized, the
\* forms as mounted and no request in flight.
InitApp ==
  /\ calls = [c \in Callers |-> Idle]
  /\ connections = <<>>
  /\ opens = 0
  /\ schema = FALSE
  /\ manager = [db |-> None, opened |-> 0, initialize |-> "idle", close |-> "idle",
                lifecycle |-> "new"]
  /\ forms = [form \in Forms |-> InitialFormState(form)]
  /\ network = <<>>

(***************************************************************************)
(* The proleptic Gregorian calendar, as Date implements it.                *)
(***************************************************************************)
IsLeapYear(y) == (y % 4 = 0 /\ y % 100 # 0) \/ y % 400 = 0

DaysInYear(y) == IF IsLeapYear(y) THEN 366 ELSE 365

DaysInMonth(y, m) ==
  IF m = 1 THEN (IF IsLeapYear(y) THEN 29 ELSE 28)
  ELSE IF m \in {3, 5, 8, 10} THEN 30 ELSE 31

RECURSIVE DaysBeforeYear(_)
DaysBeforeYear(y) ==
  IF y <= EpochYear THEN 0 ELSE DaysBeforeYear(y - 1) + DaysInYear(y - 1)

RECURSIVE DaysBeforeMonth(_, _)
DaysBeforeMonth(y, m) ==
  IF m = 0 THEN 0 ELSE DaysBeforeMonth(y, m - 1) + DaysInMonth(y, m - 1)

\* Day number of the civil date y-(m+1)-d.
DayNumber(y, m, d) == DaysBeforeYear(y) + DaysBeforeMonth(y, m) + (d - 1)

\* The civil date of a day number: its year, then its month, then its day.
YearOfDay(n) ==
  CHOOSE yy \in Years : DaysBeforeYear(yy) <= n /\ n < DaysBeforeYear(yy) + DaysInYear(yy)

MonthOfYearDay(y, r) ==
  CHOOSE mm \in Months :
    DaysBeforeMonth(y, mm) <= r /\ r < DaysBeforeMonth(y, mm) + DaysInMonth(y, mm)

CivilInMonth(y, m, r) == [y |-> y, m |-> m, d |-> r - DaysBeforeMonth(y, m) + 1]

CivilInYear(y, r) == CivilInMonth(y, MonthOfYearDay(y, r), r)

CivilOfYear(y, n) == CivilInYear(y, n - DaysBeforeYear(y))

CivilOf(n) == CivilOfYear(YearOfDay(n), n)

\* A Date from a day number and a millisecond count that may leave the day.
Normalize(day, ms) ==
  IF ms < 0 THEN [day |-> day - 1, ms |-> ms + MsPerDay]
  ELSE IF ms >= MsPerDay THEN [day |-> day + 1, ms |-> ms - MsPerDay]
  ELSE [day |-> day, ms |-> ms]

\* date1 <= date2 and date1 < date2 on Date values (comparison of getTime()).
DateLE(a, b) == a.day < b.day \/ (a.day = b.day /\ a.ms <= b.ms)
DateLT(a, b) == a.day < b.day \/ (a.day = b.day /\ a.ms < b.ms)

\* new Date(y, m, d, 0, 0, 0, ms): the instant of a local civil time.
LocalDate(y, m, d, ms, off) == Normalize(DayNumber(y, m, d), ms - off * MsPerMinute)

\* getFullYear(), getMonth(), getDate() and the local millisecond of the day.
PartsOfCivil(c, ms) == [y |-> c.y, m |-> c.m, d |-> c.d, ms |-> ms]

PartsOfLocal(l) == PartsOfCivil(CivilOf(l.day), l.ms)

LocalParts(date, off) == PartsOfLocal(Normalize(date.day, date.ms + off * MsPerMinute))

\* new Date("YYYY-MM-DD"): a date-only ISO string is read as UTC midnight.
ParseDateOnly(s) == [day |-> DayNumber(s.y, s.m, s.d), ms |-> 0]

(***************************************************************************)
(* date-fns, as imported by dateUtils.ts.  Each function is given by what  *)
(* it does to the local parts p of its argument.                           *)
(***************************************************************************)
StartOfMonthParts(p, off) == LocalDate(p.y, p.m, 1, 0, off)
startOfMonth(date, off) == StartOfMonthParts(LocalParts(date, off), off)

EndOfMonthParts(p, off) == LocalDate(p.y, p.m, DaysInMonth(p.y, p.m), MsPerDay - 1, off)
endOfMonth(date, off) == EndOfMonthParts(LocalParts(date, off), off)

StartOfQuarterParts(p, off) == LocalDate(p.y, p.m - (p.m % 3), 1, 0, off)
startOfQuarter(date, off) == StartOfQuarterParts(LocalParts(date, off), off)

EndOfQuarterParts(p, off) ==
  LocalDate(p.y, p.m - (p.m % 3) + 2, DaysInMonth(p.y, p.m - (p.m % 3) + 2), MsPerDay - 1, off)
endOfQuarter(date, off) == EndOfQuarterParts(LocalParts(date, off), off)

StartOfYearParts(p, off) == LocalDate(p.y, 0, 1, 0, off)
startOfYear(date, off) == StartOfYearParts(LocalParts(date, off), off)

EndOfYearParts(p, off) == LocalDate(p.y, 11, 31, MsPerDay - 1, off)
endOfYear(date, off) == EndOfYearParts(LocalParts(date, off), off)

\* The day d of month k (months counted from year 0), clamped to the month's
\* last day, at the local time of day ms.
ClampedDayOfMonth(k, d, ms, off) ==
  LocalDate(k \div 12, k % 12,
            IF d >= DaysInMonth(k \div 12, k % 12) THEN DaysInMonth(k \div 12, k % 12) ELSE d,
            ms, off)

\* The same without clamping, as Date.prototype.setMonth does: a day past the
\* end of the month rolls over into the next month.
RolledOverDayOfMonth(k, d, ms, off) ==
  Normalize(DayNumber(k \div 12, k % 12, 1) + (d - 1), ms - off * MsPerMinute)

SubMonthsPartsRollOver(p, amount, off) ==
  RolledOverDayOfMonth(p.y * 12 + p.m - amount, p.d, p.ms, off)

\* subMonths(date, amount) = addMonths(date, -amount): the same day of the
\* month `amount` months earlier, or that month's last day when it is shorter;
\* the time of day is kept.
SubMonthsParts(p, amount, off) ==
  ClampedDayOfMonth(p.y * 12 + p.m - amount, p.d, p.ms, off)

subMonths(date, amount, off) == SubMonthsParts(LocalParts(date, off), amount, off)

(***************************************************************************)
(* dateUtils.ts                                                            *)
(***************************************************************************)
\* { start: startOfMonth(date), end: endOfMonth(date) } and its like.
MonthRange(date, off) == [start |-> startOfMonth(date, off), end |-> endOfMonth(date, off)]

QuarterRange(date, off) == [start |-> startOfQuarter(date, off), end |-> endOfQuarter(date, off)]

YearRange(date, off) == [start |-> startOfYear(date, off), end |-> endOfYear(date, off)]

getCurrentMonth(n, off) == MonthRange(n, off)

getCurrentQuarter(n, off) == QuarterRange(n, off)

getCurrentYear(n, off) == YearRange(n, off)

\* const current = getCurrentMonth() / getCurrentQuarter() / getCurrentYear(),
\* each of which reads the clock itself (n is that reading).
CurrentRange(period, n, off) ==
  CASE period = "month" -> getCurrentMonth(n, off)
    [] period = "quarter" -> getCurrentQuarter(n, off)
    [] period = "year" -> getCurrentYear(n, off)

\* A previous quarter that goes back one month only.
PreviousRangeOneMonthBack(period, n, off) ==
  CASE period = "month" -> MonthRange(subMonths(n, 1, off), off)
    [] period = "quarter" -> QuarterRange(subMonths(n, 1, off), off)
    [] period = "year" -> YearRange(LocalDate(LocalParts(n, off).y - 1, 0, 1, 0, off), off)

\* The `previous` range, computed from getPeriodInfo's own `now`:
\* previousMonth = subMonths(now, 1), previousQuarter = subMonths(now, 3),
\* previousYear = new Date(now.getFullYear() - 1, 0, 1).
PreviousRange(period, n, off) ==
  CASE period = "month" -> MonthRange(subMonths(n, 1, off), off)
    [] period = "quarter" -> QuarterRange(subMonths(n, 3, off), off)
    [] period = "year" -> YearRange(LocalDate(LocalParts(n, off).y - 1, 0, 1, 0, off), off)

\* The label: format(current.start, 'MMMM yyyy'), `Q${floor(now.getMonth()/3)+1}
\* ${format(current.start, 'yyyy')}`, format(current.start, 'yyyy').
PeriodLabelParts(period, nowParts, startParts) ==
  CASE period = "month" -> [month |-> startParts.m, year |-> startParts.y]
    [] period = "quarter" -> [quarter |-> (nowParts.m \div 3) + 1, year |-> startParts.y]
    [] period = "year" -> [year |-> startParts.y]

PeriodLabel(period, n, cur, off) ==
  PeriodLabelParts(period, LocalParts(n, off), LocalParts(cur.start, off))

\* The PeriodInfo returned for the readings n (line 70) and cur (getCurrentX).
PeriodInfoOf(period, n, cur, off) ==
  [current |-> cur,
   previous |-> PreviousRange(period, n, off),
   label |-> PeriodLabel(period, n, cur, off)]

\* getPeriodInfo(period) when both clock readings return n.
getPeriodInfo(period, n, off) == PeriodInfoOf(period, n, CurrentRange(period, n, off), off)

(***************************************************************************)
(* A call of getPeriodInfo, step by step: it reads the clock at line 70    *)
(* and again inside getCurrentX, and the clock may advance in between.     *)
(***************************************************************************)
InitPeriod ==
  /\ tz \in TzOffsets
  /\ \E y \in FirstYear .. LastYear, m \in Months, ms \in {0, MsPerDay \div 2, MsPerDay - 1} :
       \E d \in 1 .. DaysInMonth(y, m) : clock = LocalDate(y, m, d, ms, tz)
  /\ ticks = 0
  /\ pc = "call"
  /\ unit \in Units
  /\ now = None
  /\ current = None
  /\ periodInfo = None
  /\ transactions = <<>>
  /\ periodRange = None
  /\ budgets = <<>>
  /\ summary = None
  /\ budgetPerformance = None
  /\ trends = None
  /\ insights = None
  /\ InitStore
  /\ InitApp

\* The wall clock advances by a millisecond while the call is running.
Tick ==
  /\ pc \in {"current", "previous"}
  /\ ticks < MaxTicks
  /\ clock' = Normalize(clock.day, clock.ms + 1)
  /\ ticks' = ticks + 1
  /\ UNCHANGED <<tz, pc, unit, now, current, periodInfo>>
  /\ UNCHANGED calcVars
  /\ UNCHANGED insightVars
  /\ UNCHANGED storeVars
  /\ UNCHANGED appVars

ReadNow ==
  /\ pc = "call"
  /\ now' = clock
  /\ pc' = "current"
  /\ UNCHANGED <<tz, clock, ticks, unit, current, periodInfo>>
  /\ UNCHANGED calcVars
  /\ UNCHANGED insightVars
  /\ UNCHANGED storeVars
  /\ UNCHANGED appVars

ReadCurrent ==
  /\ pc = "current"
  /\ current' = CurrentRange(unit, clock, tz)
  /\ pc' = "previous"
  /\ UNCHANGED <<tz, clock, ticks, unit, now, periodInfo>>
  /\ UNCHANGED calcVars
  /\ UNCHANGED insightVars
  /\ UNCHANGED storeVars
  /\ UNCHANGED appVars

ReturnPeriodInfo ==
  /\ pc = "previous"
  /\ periodInfo' = PeriodInfoOf(unit, now, current, tz)
  /\ pc' = "done"
  /\ UNCHANGED <<tz, clock, ticks, unit, now, current>>
  /\ UNCHANGED calcVars
  /\ UNCHANGED insightVars
  /\ UNCHANGED storeVars
  /\ UNCHANGED appVars

NextPeriod == ReadNow \/ Tick \/ ReadCurrent \/ ReturnPeriodInfo

SpecPeriod == InitPeriod /\ [][NextPeriod]_vars

(***************************************************************************)
(* JavaScript numbers.  Amounts and their sums are integers; a quotient is *)
(* an exact fraction [num, den] in lowest terms with den > 0.  Division by *)
(* zero gives what IEEE 754 gives: den = 0 and num = 0 for NaN, 1 for      *)
(* Infinity, -1 for -Infinity.                                             *)
(***************************************************************************)
Abs(n) == IF n < 0 THEN -n ELSE n

Sign(n) == IF n > 0 THEN 1 ELSE IF n < 0 THEN -1 ELSE 0

RECURSIVE GCD(_, _)
GCD(a, b) == IF b = 0 THEN a ELSE GCD(b, a % b)

Fraction(n, d) == [num |-> n \div GCD(Abs(n), d), den |-> d \div GCD(Abs(n), d)]

Zero == Fraction(0, 1)

\* (n / d) * 100
Percent(n, d) ==
  IF d = 0 THEN [num |-> Sign(n), den |-> 0]
  ELSE IF d < 0 THEN Fraction((-n) * 100, -d)
  ELSE Fraction(n * 100, d)

IsFiniteNumber(r) == r.den > 0

\* r > k and r < k for an integer k; every comparison with NaN is false.
GreaterThan(r, k) == IF r.den = 0 THEN r.num = 1 ELSE r.num > k * r.den
LessThan(r, k) == IF r.den = 0 THEN r.num = -1 ELSE r.num < k * r.den

\* Math.abs
MathAbs(r) == [num |-> Abs(r.num), den |-> r.den]

(***************************************************************************)
(* calculations.ts                                                         *)
(***************************************************************************)
\* transactionDate >= range.start && transactionDate <= range.end, with
\* transactionDate = new Date(transaction.date).
DateInRange(transactionDate, range) ==
  DateLE(range.start, transactionDate) /\ DateLE(transactionDate, range.end)

InRange(t, range) == DateInRange(ParseDateOnly(t.date), range)

\* .reduce((sum, t) => sum + t.amount, 0)
RECURSIVE SumAmounts(_)
SumAmounts(ts) ==
  IF ts = <<>> THEN 0 ELSE SumAmounts(SubSeq(ts, 1, Len(ts) - 1)) + ts[Len(ts)].amount

IsIncome(t) == t.type = "income"
IsExpense(t) == t.type = "expense"

\* Property keys that are canonical array indices, with their numeric value.
ArrayIndexValue == ("2" :> 2) @@ ("10" :> 10)
IsArrayIndex(key) == key \in DOMAIN ArrayIndexValue

\* acc[transaction.category] = transaction.amount: the last amount replaces the sum.
AddToCategoryOverwrite(acc, t) ==
  IF \E i \in 1 .. Len(acc) : acc[i].category = t.category
    THEN [i \in 1 .. Len(acc) |->
            IF acc[i].category = t.category
              THEN [category |-> acc[i].category, amount |-> t.amount]
              ELSE acc[i]]
    ELSE Append(acc, [category |-> t.category, amount |-> t.amount])

\* acc[transaction.category] = (acc[transaction.category] || 0) + transaction.amount
\* on an object kept as the sequence of its properties in creation order.
AddToCategory(acc, t) ==
  IF \E i \in 1 .. Len(acc) : acc[i].category = t.category
    THEN [i \in 1 .. Len(acc) |->
            IF acc[i].category = t.category
              THEN [category |-> acc[i].category, amount |-> acc[i].amount + t.amount]
              ELSE acc[i]]
    ELSE Append(acc, [category |-> t.category, amount |-> t.amount])

RECURSIVE CategoryTotals(_)
CategoryTotals(ts) ==
  IF ts = <<>> THEN <<>>
  ELSE AddToCategory(CategoryTotals(SubSeq(ts, 1, Len(ts) - 1)), ts[Len(ts)])

\* Insert e into a sequence of index-keyed properties sorted by ascending index.
RECURSIVE InsertByIndex(_, _)
InsertByIndex(s, e) ==
  IF s = <<>> THEN <<e>>
  ELSE IF ArrayIndexValue[e.category] < ArrayIndexValue[s[1].category]
    THEN <<e>> \o s
    ELSE <<s[1]>> \o InsertByIndex(Tail(s), e)

RECURSIVE SortByIndex(_)
SortByIndex(s) ==
  IF s = <<>> THEN <<>>
  ELSE InsertByIndex(SortByIndex(SubSeq(s, 1, Len(s) - 1)), s[Len(s)])

\* Object.entries(acc): own property order puts the array-index keys first, in
\* ascending numeric order, then the other string keys in creation order.
ObjectEntries(acc) ==
  SortByIndex(SelectSeq(acc, LAMBDA e : IsArrayIndex(e.category)))
    \o SelectSeq(acc, LAMBDA e : ~IsArrayIndex(e.category))

\* Insert e behind every element whose amount is not smaller (stable).
RECURSIVE InsertDescending(_, _)
InsertDescending(s, e) ==
  IF s = <<>> THEN <<e>>
  ELSE IF e.amount > s[1].amount
    THEN <<e>> \o s
    ELSE <<s[1]>> \o InsertDescending(Tail(s), e)

RECURSIVE InsertAscending(_, _)
InsertAscending(s, e) ==
  IF s = <<>> THEN <<e>>
  ELSE IF e.amount < s[1].amount
    THEN <<e>> \o s
    ELSE <<s[1]>> \o InsertAscending(Tail(s), e)

RECURSIVE SortAscendingByAmount(_)
SortAscendingByAmount(s) ==
  IF s = <<>> THEN <<>>
  ELSE InsertAscending(SortAscendingByAmount(SubSeq(s, 1, Len(s) - 1)), s[Len(s)])

\* .sort((a, b) => b.amount - a.amount): Array.prototype.sort is stable.
RECURSIVE SortByAmount(_)
SortByAmount(s) ==
  IF s = <<>> THEN <<>>
  ELSE InsertDescending(SortByAmount(SubSeq(s, 1, Len(s) - 1)), s[Len(s)])

TopN == 5

\* .slice(0, 5)
Slice(s) == SubSeq(s, 1, IF Len(s) < TopN THEN Len(s) ELSE TopN)

TotalIncomeAnyType(periodTransactions) == SumAmounts(periodTransactions)

TotalIncome(periodTransactions) == SumAmounts(SelectSeq(periodTransactions, IsIncome))

TotalExpenses(periodTransactions) == SumAmounts(SelectSeq(periodTransactions, IsExpense))

SavingsRateUnguarded(netSavings, totalIncome) == Percent(netSavings, totalIncome)

\* totalIncome > 0 ? (netSavings / totalIncome) * 100 : 0
SavingsRate(netSavings, totalIncome) ==
  IF totalIncome > 0 THEN Percent(netSavings, totalIncome) ELSE Zero

\* totalExpenses > 0 ? (amount / totalExpenses) * 100 : 0
CategoryPercentage(amount, totalExpenses) ==
  IF totalExpenses > 0 THEN Percent(amount, totalExpenses) ELSE Zero

\* .map(([category, amount]) => ({ category, amount, percentage }))
MapEntries(entries, totalExpenses) ==
  [i \in 1 .. Len(entries) |->
     [category |-> entries[i].category,
      amount |-> entries[i].amount,
      percentage |-> CategoryPercentage(entries[i].amount, totalExpenses)]]

TopCategories(periodTransactions, totalExpenses) ==
  Slice(SortByAmount(MapEntries(
    ObjectEntries(CategoryTotals(SelectSeq(periodTransactions, IsExpense))), totalExpenses)))

SummaryOfTotals(periodTransactions, totalIncome, totalExpenses) ==
  [totalIncome |-> totalIncome,
   totalExpenses |-> totalExpenses,
   netSavings |-> totalIncome - totalExpenses,
   savingsRate |-> SavingsRate(totalIncome - totalExpenses, totalIncome),
   topCategories |-> TopCategories(periodTransactions, totalExpenses)]

SummaryOf(periodTransactions) ==
  SummaryOfTotals(periodTransactions, TotalIncome(periodTransactions),
                  TotalExpenses(periodTransactions))

calculateFinancialSummary(ts, range) ==
  SummaryOf(SelectSeq(ts, LAMBDA t : InRange(t, range)))

\* let status = 'under'; if (percentUsed > 100) status = 'over'
\* else if (percentUsed > 80) status = 'ontrack'
BudgetStatusInclusive(percentUsed) ==
  IF GreaterThan(percentUsed, 100) THEN "over"
  ELSE IF ~LessThan(percentUsed, 80) THEN "ontrack"
  ELSE "under"

BudgetStatus(percentUsed) ==
  IF GreaterThan(percentUsed, 100) THEN "over"
  ELSE IF GreaterThan(percentUsed, 80) THEN "ontrack"
  ELSE "under"

\* budget.budgetAmount > 0 ? (spentAmount / budget.budgetAmount) * 100 : 0
PercentUsed(spentAmount, budgetAmount) ==
  IF budgetAmount > 0 THEN Percent(spentAmount, budgetAmount) ELSE Zero

\* { ...budget, spentAmount, status, percentUsed }
BudgetResultOf(budget, spentAmount, percentUsed) ==
  [category |-> budget.category,
   budgetAmount |-> budget.budgetAmount,
   period |-> budget.period,
   spentAmount |-> spentAmount,
   status |-> BudgetStatus(percentUsed),
   percentUsed |-> percentUsed]

BudgetResult(budget, spentAmount) ==
  BudgetResultOf(budget, spentAmount, PercentUsed(spentAmount, budget.budgetAmount))

CategoryTransactionsOfAnyType(ts, budget, range) ==
  SelectSeq(ts, LAMBDA t : t.category = budget.category /\ InRange(t, range))

\* transactions.filter(t => t.category === budget.category && t.type === 'expense'
\*   && new Date(t.date) >= current.start && new Date(t.date) <= current.end)
CategoryTransactions(ts, budget, range) ==
  SelectSeq(ts, LAMBDA t : /\ t.category = budget.category
                           /\ t.type = "expense"
                           /\ InRange(t, range))

calculateBudgetPerformance(ts, bs, info) ==
  [i \in 1 .. Len(bs) |->
     BudgetResult(bs[i], SumAmounts(CategoryTransactions(ts, bs[i], info.current)))]

ChangePercentUnguarded(currentSpending, previousSpending) ==
  Percent(currentSpending - previousSpending, previousSpending)

\* previousSpending > 0 ? ((currentSpending - previousSpending) / previousSpending) * 100 : 0
ChangePercent(currentSpending, previousSpending) ==
  IF previousSpending > 0
    THEN Percent(currentSpending - previousSpending, previousSpending)
    ELSE Zero

TrendingInclusive(changePercent) ==
  IF ~LessThan(MathAbs(changePercent), 5)
    THEN (IF GreaterThan(changePercent, 0) THEN "up" ELSE "down")
    ELSE "stable"

\* let trending = 'stable'
\* if (Math.abs(changePercent) > 5) trending = changePercent > 0 ? 'up' : 'down'
Trending(changePercent) ==
  IF GreaterThan(MathAbs(changePercent), 5)
    THEN (IF GreaterThan(changePercent, 0) THEN "up" ELSE "down")
    ELSE "stable"

TrendsOfChange(currentSpending, previousSpending, changePercent) ==
  [current |-> currentSpending,
   previous |-> previousSpending,
   changePercent |-> changePercent,
   trending |-> Trending(changePercent)]

TrendsOf(currentSpending, previousSpending) ==
  TrendsOfChange(currentSpending, previousSpending,
                 ChangePercent(currentSpending, previousSpending))

\* transactions.filter(t => t.type === 'expense' && date >= start && date <= end)
\*   .reduce((sum, t) => sum + t.amount, 0)
SpendingIn(ts, range) ==
  SumAmounts(SelectSeq(ts, LAMBDA t : t.type = "expense" /\ InRange(t, range)))

calculateSpendingTrends(ts, info) ==
  TrendsOf(SpendingIn(ts, info.current), SpendingIn(ts, info.previous))

(***************************************************************************)
(* Calls of the calculations.  The caller builds a transaction list, then  *)
(* calls one of the three functions; getPeriodInfo is evaluated inside the *)
(* call at the clock's reading.                                            *)
(***************************************************************************)
CivilDate(y, m, d) == [y |-> y, m |-> m, d |-> d]

Txn(id, amount, type, date, category) ==
  [id |-> id, amount |-> amount, type |-> type, date |-> date, category |-> category]

\* "Now" of the calculation scenarios: noon of 15 January, local time.
CalcNow(off) == LocalDate(FirstYear + 1, 0, 15, MsPerDay \div 2, off)

InitCalc(offsets, units) ==
  /\ tz \in offsets
  /\ clock = CalcNow(tz)
  /\ ticks = 0
  /\ pc = "input"
  /\ unit \in units
  /\ now = None
  /\ current = None
  /\ periodInfo = None
  /\ transactions = <<>>
  /\ periodRange = None
  /\ budgets = <<>>
  /\ summary = None
  /\ budgetPerformance = None
  /\ trends = None
  /\ insights = None
  /\ InitStore
  /\ InitApp

\* The caller appends a transaction; its id is its position in the list.
AddTransaction(alphabet, max) ==
  /\ pc = "input"
  /\ Len(transactions) < max
  /\ \E t \in alphabet :
       transactions' = Append(transactions, [t EXCEPT !.id = Len(transactions) + 1])
  /\ UNCHANGED <<pc, periodRange, budgets, summary, budgetPerformance, trends>>
  /\ UNCHANGED calendarVars
  /\ UNCHANGED insightVars
  /\ UNCHANGED storeVars
  /\ UNCHANGED appVars

\* The caller appends one of the stored transactions not yet in the list.
AddStoredTransaction(stored, max) ==
  /\ pc = "input"
  /\ Len(transactions) < max
  /\ \E t \in stored :
       /\ \A i \in 1 .. Len(transactions) : transactions[i].id # t.id
       /\ transactions' = Append(transactions, t)
  /\ UNCHANGED <<pc, periodRange, budgets, summary, budgetPerformance, trends>>
  /\ UNCHANGED calendarVars
  /\ UNCHANGED insightVars
  /\ UNCHANGED storeVars
  /\ UNCHANGED appVars

\* calculateFinancialSummary(transactions, range) with range the current or
\* the previous range of getPeriodInfo(unit).
CallFinancialSummary ==
  /\ pc = "input"
  /\ periodInfo' = getPeriodInfo(unit, clock, tz)
  /\ \E range \in {periodInfo'.current, periodInfo'.previous} :
       /\ periodRange' = range
       /\ summary' = calculateFinancialSummary(transactions, range)
  /\ pc' = "summary"
  /\ UNCHANGED <<tz, clock, ticks, unit, now, current>>
  /\ UNCHANGED <<transactions, budgets, budgetPerformance, trends>>
  /\ UNCHANGED insightVars
  /\ UNCHANGED storeVars
  /\ UNCHANGED appVars

\* calculateBudgetPerformance(transactions, budgets, unit)
CallBudgetPerformance(inputs) ==
  /\ pc = "input"
  /\ periodInfo' = getPeriodInfo(unit, clock, tz)
  /\ \E bs \in inputs :
       /\ budgets' = [i \in 1 .. Len(bs) |-> [bs[i] EXCEPT !.period = unit]]
       /\ budgetPerformance' = calculateBudgetPerformance(transactions, budgets', periodInfo')
  /\ pc' = "budget"
  /\ UNCHANGED <<tz, clock, ticks, unit, now, current>>
  /\ UNCHANGED <<transactions, periodRange, summary, trends>>
  /\ UNCHANGED insightVars
  /\ UNCHANGED storeVars
  /\ UNCHANGED appVars

\* calculateSpendingTrends(transactions, unit)
CallSpendingTrends ==
  /\ pc = "input"
  /\ periodInfo' = getPeriodInfo(unit, clock, tz)
  /\ trends' = calculateSpendingTrends(transactions, periodInfo')
  /\ pc' = "trends"
  /\ UNCHANGED <<tz, clock, ticks, unit, now, current>>
  /\ UNCHANGED <<transactions, periodRange, budgets, summary, budgetPerformance>>
  /\ UNCHANGED insightVars
  /\ UNCHANGED storeVars
  /\ UNCHANGED appVars

(***************************************************************************)
(* Scenario "summary": incomes and expenses dated on either side of the    *)
(* boundary between December and January and in mid-January, summarised    *)
(* over either month, in every time zone.                                  *)
(***************************************************************************)
LastOfDecember == CivilDate(FirstYear, 11, 31)
FirstOfJanuary == CivilDate(FirstYear + 1, 0, 1)
MidJanuary == CivilDate(FirstYear + 1, 0, 15)
MidDecember == CivilDate(FirstYear, 11, 15)

SummaryTxns ==
  { Txn(0, a, ty, d, "Food") : a \in {1, 2}, ty \in {"income", "expense"},
                               d \in {LastOfDecember, FirstOfJanuary, MidJanuary} }

AddSummaryTxn == AddTransaction(SummaryTxns, MaxTxns)

InitSummary == InitCalc(TzOffsets, {"month"})

NextSummary == AddSummaryTxn \/ CallFinancialSummary

SpecSummary == InitSummary /\ [][NextSummary]_vars

(***************************************************************************)
(* Scenario "top": a store of eight transactions dated in mid-January over *)
(* six expense categories, two of them with labels that are array indices; *)
(* Utilities and Transportation tie, the second Utilities expense ties     *)
(* with "2" and both together with "10", and one income is booked under an *)
(* expense label.  The list is any arrangement of stored transactions.     *)
(***************************************************************************)
StoredTxns ==
  { Txn(1, 5, "expense", MidJanuary, "Food"),
    Txn(2, 4, "expense", MidJanuary, "Housing"),
    Txn(3, 3, "expense", MidJanuary, "10"),
    Txn(4, 2, "expense", MidJanuary, "2"),
    Txn(5, 1, "expense", MidJanuary, "Utilities"),
    Txn(6, 1, "expense", MidJanuary, "Transportation"),
    Txn(7, 2, "expense", MidJanuary, "Utilities"),
    Txn(8, 7, "income", MidJanuary, "Food") }

AddTopTxn == AddStoredTransaction(StoredTxns, MaxTopTxns)

InitTop == InitCalc({0}, {"month"})

NextTop == AddTopTxn \/ CallFinancialSummary

SpecTop == InitTop /\ [][NextTop]_vars

(***************************************************************************)
(* Scenario "calc": Food expenses of 0, 19, 20 and 21 in the current and   *)
(* the previous period of every unit (15 December lies in the previous     *)
(* month, quarter and year of 15 January), a Housing expense, an income,   *)
(* and budgets of 0, 20 and 25: the amounts meet the thresholds 5 %, 80 %  *)
(* and 100 % exactly.                                                      *)
(***************************************************************************)
CalcTxns ==
  { Txn(0, a, "expense", d, "Food") : a \in {0, 19, 20, 21}, d \in {MidDecember, MidJanuary} }
    \cup { Txn(0, 20, "expense", MidJanuary, "Housing"),
           Txn(0, 20, "income", MidJanuary, "Food") }

Budget(category, budgetAmount) ==
  [category |-> category, budgetAmount |-> budgetAmount, spentAmount |-> 7, period |-> "month"]

BudgetInputs ==
  { <<>>,
    <<Budget("Food", 0)>>,
    <<Budget("Food", 20)>>,
    <<Budget("Food", 25)>>,
    <<Budget("Food", 20), Budget("Housing", 20)>>,
    <<Budget("Housing", 20), Budget("Food", 25)>> }

AddCalcTxn == AddTransaction(CalcTxns, MaxCalcTxns)

CallBudgets == CallBudgetPerformance(BudgetInputs)

InitCalcScenario == InitCalc({0}, Units)

NextCalc == AddCalcTxn \/ CallFinancialSummary \/ CallBudgets \/ CallSpendingTrends

SpecCalc == InitCalcScenario /\ [][NextCalc]_vars

(***************************************************************************)
(* Properties of the period calendar (SpecPeriod).                         *)
(***************************************************************************)
\* The instant one millisecond after a Date.
NextInstant(date) == Normalize(date.day, date.ms + 1)

\* C9: for every unit and every now, the ranges returned by getPeriodInfo
\* satisfy previous.start <= previous.end < current.start <= current.end.
RangesOrderedAndDisjoint ==
  pc = "done" =>
    /\ DateLE(periodInfo.previous.start, periodInfo.previous.end)
    /\ DateLT(periodInfo.previous.end, periodInfo.current.start)
    /\ DateLE(periodInfo.current.start, periodInfo.current.end)

\* getPeriodInfo('month') returned for a now on 31 March, whose previous month
\* has no 31st.
ReturnedOnThirtyFirstOfMarch ==
  /\ pc = "done"
  /\ unit = "month"
  /\ LocalParts(now, tz).m = 2
  /\ LocalParts(now, tz).d = 31

\* The calendar period of `period` that holds month m of year y, as the pair
\* of its first and its last instant in local time.
FirstMonthOfPeriod(period, m) ==
  CASE period = "month" -> m
    [] period = "quarter" -> 3 * (m \div 3)
    [] period = "year" -> 0

LastMonthOfPeriod(period, m) ==
  CASE period = "month" -> m
    [] period = "quarter" -> 3 * (m \div 3) + 2
    [] period = "year" -> 11

CalendarPeriod(period, y, m, off) ==
  [start |-> LocalDate(y, FirstMonthOfPeriod(period, m), 1, 0, off),
   end |-> LocalDate(y, LastMonthOfPeriod(period, m),
                     DaysInMonth(y, LastMonthOfPeriod(period, m)), MsPerDay - 1, off)]

MonthsInPeriod(period) ==
  CASE period = "month" -> 1 [] period = "quarter" -> 3 [] period = "year" -> 12

\* The calendar period before the one that holds month m of year y: the
\* period's length earlier, in the prior year when that leaves the year.
PrecedingCalendarPeriod(period, y, m, off) ==
  IF FirstMonthOfPeriod(period, m) - MonthsInPeriod(period) < 0
    THEN CalendarPeriod(period, y - 1, 12 - MonthsInPeriod(period), off)
    ELSE CalendarPeriod(period, y, FirstMonthOfPeriod(period, m) - MonthsInPeriod(period), off)

\* C10: for a fixed now (the clock did not advance during the call), current
\* is the calendar month / quarter / year containing now, previous is the
\* calendar period of the same unit right before it, and previous.end is the
\* last instant before current.start.
CurrentAndPreviousAreAdjacentCalendarPeriods ==
  (pc = "done" /\ ticks = 0) =>
    /\ periodInfo.current =
         CalendarPeriod(unit, LocalParts(now, tz).y, LocalParts(now, tz).m, tz)
    /\ DateLE(periodInfo.current.start, now)
    /\ DateLE(now, periodInfo.current.end)
    /\ periodInfo.previous =
         PrecedingCalendarPeriod(unit, LocalParts(now, tz).y, LocalParts(now, tz).m, tz)
    /\ NextInstant(periodInfo.previous.end) = periodInfo.current.start

\* getPeriodInfo('quarter') returned for a now in February, in the middle of
\* the first quarter: the previous quarter lies in the prior year.
ReturnedInFirstQuarter ==
  /\ pc = "done"
  /\ ticks = 0
  /\ unit = "quarter"
  /\ LocalParts(now, tz).m = 1
  /\ LocalParts(now, tz).d = 29
  /\ LocalParts(periodInfo.previous.start, tz).y = LocalParts(now, tz).y - 1

(***************************************************************************)
(* Properties of the thresholds and of the guarded ratios (SpecCalc).      *)
(***************************************************************************)
\* C1: calculateSpendingTrends returns 'stable' exactly when
\* -5 <= changePercent <= 5, 'up' exactly when changePercent > 5 and 'down'
\* exactly when changePercent < -5, and nothing else.
TrendingMatchesChangePercent ==
  pc = "trends" =>
    /\ trends.changePercent.den > 0
    /\ trends.trending \in {"up", "down", "stable"}
    /\ trends.trending = "stable" <=>
         /\ -5 * trends.changePercent.den <= trends.changePercent.num
         /\ trends.changePercent.num <= 5 * trends.changePercent.den
    /\ trends.trending = "up" <=> trends.changePercent.num > 5 * trends.changePercent.den
    /\ trends.trending = "down" <=> trends.changePercent.num < -5 * trends.changePercent.den

\* Spending went from 20 to 21: changePercent is exactly 5, reported stable.
ExactlyFivePercentIsStable ==
  /\ pc = "trends"
  /\ trends.previous = 20
  /\ trends.current = 21
  /\ trends.changePercent = [num |-> 5, den |-> 1]
  /\ trends.trending = "stable"

\* C2: calculateBudgetPerformance sets status 'over' exactly when
\* percentUsed > 100, 'ontrack' exactly when 80 < percentUsed <= 100 and
\* 'under' otherwise, with percentUsed = spentAmount / budgetAmount * 100.
BudgetStatusMatchesPercentUsed ==
  pc = "budget" =>
    \A i \in 1 .. Len(budgetPerformance) :
      /\ budgetPerformance[i].percentUsed.den > 0
      /\ budgetPerformance[i].budgetAmount > 0 =>
           budgetPerformance[i].percentUsed.num * budgetPerformance[i].budgetAmount
             = budgetPerformance[i].spentAmount * 100 * budgetPerformance[i].percentUsed.den
      /\ budgetPerformance[i].status \in {"over", "ontrack", "under"}
      /\ budgetPerformance[i].status = "over" <=>
           budgetPerformance[i].percentUsed.num > 100 * budgetPerformance[i].percentUsed.den
      /\ budgetPerformance[i].status = "ontrack" <=>
           /\ budgetPerformance[i].percentUsed.num > 80 * budgetPerformance[i].percentUsed.den
           /\ budgetPerformance[i].percentUsed.num <= 100 * budgetPerformance[i].percentUsed.den

\* One call whose results hold a budget of 25 with 20 spent (80 %, under) and
\* a budget of 20 with 20 spent (100 %, on track).
EightyIsUnderAndHundredIsOnTrack ==
  /\ pc = "budget"
  /\ Len(budgetPerformance) = 2
  /\ budgetPerformance[1].budgetAmount = 20
  /\ budgetPerformance[1].spentAmount = 20
  /\ budgetPerformance[1].status = "ontrack"
  /\ budgetPerformance[2].budgetAmount = 25
  /\ budgetPerformance[2].spentAmount = 20
  /\ budgetPerformance[2].percentUsed = [num |-> 80, den |-> 1]
  /\ budgetPerformance[2].status = "under"

\* C3: no returned ratio is NaN or infinite, and each is 0 when its
\* denominator is 0: savingsRate when totalIncome = 0, each topCategories
\* percentage when totalExpenses = 0, percentUsed when budgetAmount = 0, and
\* changePercent when previous = 0 (the trend is then 'stable').
ZeroDenominatorGivesZero ==
  /\ pc = "summary" =>
       /\ IsFiniteNumber(summary.savingsRate)
       /\ summary.totalIncome = 0 => summary.savingsRate = Zero
       /\ \A i \in 1 .. Len(summary.topCategories) :
            /\ IsFiniteNumber(summary.topCategories[i].percentage)
            /\ summary.totalExpenses = 0 => summary.topCategories[i].percentage = Zero
  /\ pc = "budget" =>
       \A i \in 1 .. Len(budgetPerformance) :
         /\ IsFiniteNumber(budgetPerformance[i].percentUsed)
         /\ budgetPerformance[i].budgetAmount = 0 => budgetPerformance[i].percentUsed = Zero
  /\ pc = "trends" =>
       /\ IsFiniteNumber(trends.changePercent)
       /\ trends.previous = 0 => (trends.changePercent = Zero /\ trends.trending = "stable")

\* Spending rose from nothing in the previous period to 41 in the current one.
SpendingRoseFromZero ==
  /\ pc = "trends"
  /\ trends.previous = 0
  /\ trends.current = 41
  /\ trends.trending = "stable"

\* The other zero denominators are met as well: a summary without income and
\* with a category whose expenses sum to 0, and a budget of 0 with money spent.
SummaryWithZeroDenominators ==
  /\ pc = "summary"
  /\ summary.totalIncome = 0
  /\ summary.totalExpenses = 0
  /\ Len(summary.topCategories) = 1

ZeroBudgetWithSpending ==
  /\ pc = "budget"
  /\ \E i \in 1 .. Len(budgetPerformance) :
       budgetPerformance[i].budgetAmount = 0 /\ budgetPerformance[i].spentAmount > 0

(***************************************************************************)
(* Properties of calculateFinancialSummary (SpecSummary, SpecTop).         *)
(***************************************************************************)
\* The sum of the amounts of the transactions at the positions in S.
RECURSIVE IndexSum(_, _)
IndexSum(ts, S) ==
  IF S = {} THEN 0
  ELSE ts[CHOOSE i \in S : TRUE].amount + IndexSum(ts, S \ {CHOOSE i \in S : TRUE})

\* The positions of the transactions of a type that pass the date filter.
PositionsInRange(ts, type, range) ==
  { i \in 1 .. Len(ts) : ts[i].type = type /\ InRange(ts[i], range) }

\* C4: totalIncome and totalExpenses are the sums of the amounts of the
\* in-range income and expense transactions, netSavings is their difference,
\* savingsRate is netSavings / totalIncome * 100 when totalIncome > 0, and
\* the summary of the empty list is all zeros with no top category.
SummaryTotalsAreSums ==
  pc = "summary" =>
    /\ summary.totalIncome =
         IndexSum(transactions, PositionsInRange(transactions, "income", periodRange))
    /\ summary.totalExpenses =
         IndexSum(transactions, PositionsInRange(transactions, "expense", periodRange))
    /\ summary.netSavings = summary.totalIncome - summary.totalExpenses
    /\ summary.totalIncome > 0 =>
         /\ summary.savingsRate.den > 0
         /\ summary.savingsRate.num * summary.totalIncome
              = summary.netSavings * 100 * summary.savingsRate.den
    /\ transactions = <<>> =>
         summary = [totalIncome |-> 0, totalExpenses |-> 0, netSavings |-> 0,
                    savingsRate |-> Zero, topCategories |-> <<>>]

\* A summary of three transactions, one of them outside the range: income 2,
\* expenses 1, savings rate 50.
SummaryOfIncomeAndExpense ==
  /\ pc = "summary"
  /\ Len(transactions) = 3
  /\ \E i \in 1 .. 3 : ~InRange(transactions[i], periodRange)
  /\ summary.totalIncome = 2
  /\ summary.totalExpenses = 1
  /\ summary.netSavings = 1
  /\ summary.savingsRate = [num |-> 50, den |-> 1]

\* Civil dates in calendar order.
CivilLE(a, b) ==
  \/ a.y < b.y
  \/ a.y = b.y /\ a.m < b.m
  \/ a.y = b.y /\ a.m = b.m /\ a.d <= b.d

\* The calendar date lies between the calendar days of range.start and
\* range.end, as the machine's local time shows them.
CalendarDateInRange(date, range) ==
  /\ CivilLE(LocalParts(range.start, tz), date)
  /\ CivilLE(date, LocalParts(range.end, tz))

PositionsByCalendarDate(ts, type, range) ==
  { i \in 1 .. Len(ts) : ts[i].type = type /\ CalendarDateInRange(ts[i].date, range) }

\* C8: a transaction is counted if and only if its calendar date lies between
\* the calendar days of range.start and range.end, both inclusive, whatever
\* the time zone: the totals are the sums over exactly those transactions.
CountedIffCalendarDateInRange ==
  pc = "summary" =>
    /\ summary.totalIncome =
         IndexSum(transactions, PositionsByCalendarDate(transactions, "income", periodRange))
    /\ summary.totalExpenses =
         IndexSum(transactions, PositionsByCalendarDate(transactions, "expense", periodRange))

\* The categories of the in-range expenses, and the sum of each.
ExpenseCategories(ts, range) ==
  { ts[i].category : i \in PositionsInRange(ts, "expense", range) }

CategorySum(ts, range, c) ==
  IndexSum(ts, { i \in PositionsInRange(ts, "expense", range) : ts[i].category = c })

ListedCategories(top) == { top[i].category : i \in 1 .. Len(top) }

\* C5: topCategories holds min(5, number of in-range expense categories)
\* entries, each a different category with that category's in-range expense
\* sum as amount and amount / totalExpenses * 100 as percentage, in
\* non-increasing order of amount, and no omitted category has a larger
\* amount than a listed one; incomes add to no category.
TopCategoriesAreTheLargestFive ==
  pc = "summary" =>
    /\ Len(summary.topCategories) =
         IF Cardinality(ExpenseCategories(transactions, periodRange)) < 5
           THEN Cardinality(ExpenseCategories(transactions, periodRange))
           ELSE 5
    /\ Cardinality(ListedCategories(summary.topCategories)) = Len(summary.topCategories)
    /\ \A i \in 1 .. Len(summary.topCategories) :
         /\ summary.topCategories[i].category \in ExpenseCategories(transactions, periodRange)
         /\ summary.topCategories[i].amount =
              CategorySum(transactions, periodRange, summary.topCategories[i].category)
         /\ summary.topCategories[i].percentage.den > 0
         /\ summary.topCategories[i].percentage.num * summary.totalExpenses
              = summary.topCategories[i].amount * 100 * summary.topCategories[i].percentage.den
         /\ \A j \in 1 .. Len(summary.topCategories) :
              i < j => summary.topCategories[i].amount >= summary.topCategories[j].amount
         /\ \A c \in ExpenseCategories(transactions, periodRange)
                       \ ListedCategories(summary.topCategories) :
              CategorySum(transactions, periodRange, c) <= summary.topCategories[i].amount

\* Six expense categories in range: five are listed, Food first, and the
\* omitted category is smaller than every listed one.
SixCategoriesCutToFive ==
  /\ pc = "summary"
  /\ Cardinality(ExpenseCategories(transactions, periodRange)) = 6
  /\ Len(summary.topCategories) = 5
  /\ summary.topCategories[1].category = "Food"
  /\ summary.topCategories[1].amount = 5
  /\ CategorySum(transactions, periodRange, "Transportation")
       < summary.topCategories[5].amount

\* The position of the first in-range expense of category c.
FirstPosition(ts, range, c) ==
  CHOOSE i \in PositionsInRange(ts, "expense", range) :
    /\ ts[i].category = c
    /\ \A j \in PositionsInRange(ts, "expense", range) : ts[j].category = c => i <= j

\* C6: of two categories with equal sums, the one whose first in-range
\* expense comes earlier in the list is ranked first, and is the one kept
\* when the tie straddles the cut, whatever the category labels are.
EarlierCategoryWinsTie ==
  pc = "summary" =>
    \A i \in 1 .. Len(summary.topCategories) :
      /\ \A j \in 1 .. Len(summary.topCategories) :
           (i < j /\ summary.topCategories[i].amount = summary.topCategories[j].amount) =>
             FirstPosition(transactions, periodRange, summary.topCategories[i].category)
               < FirstPosition(transactions, periodRange, summary.topCategories[j].category)
      /\ \A c \in ExpenseCategories(transactions, periodRange)
                    \ ListedCategories(summary.topCategories) :
           CategorySum(transactions, periodRange, c) = summary.topCategories[i].amount =>
             FirstPosition(transactions, periodRange, summary.topCategories[i].category)
               < FirstPosition(transactions, periodRange, c)

\* The arrangement of a list of transactions with different ids in the order
\* of the ids.  Two lists are permutations of one another exactly when they
\* have the same arrangement by id, so a summary that agrees with the summary
\* of that arrangement agrees with the summary of every permutation.
RECURSIVE InsertById(_, _)
InsertById(s, t) ==
  IF s = <<>> THEN <<t>>
  ELSE IF t.id < s[1].id THEN <<t>> \o s ELSE <<s[1]>> \o InsertById(Tail(s), t)

RECURSIVE ArrangedById(_)
ArrangedById(ts) ==
  IF ts = <<>> THEN <<>>
  ELSE InsertById(ArrangedById(SubSeq(ts, 1, Len(ts) - 1)), ts[Len(ts)])

AmountsDiffer(top) ==
  \A i, j \in 1 .. Len(top) : i # j => top[i].amount # top[j].amount

Entries(top) == { top[i] : i \in 1 .. Len(top) }

SameTotals(a, b) ==
  /\ a.totalIncome = b.totalIncome
  /\ a.totalExpenses = b.totalExpenses
  /\ a.netSavings = b.netSavings
  /\ a.savingsRate = b.savingsRate

\* C7 as claimed: permuting the list leaves the four totals unchanged, and
\* leaves the set of topCategories entries unchanged whenever topCategories
\* holds no two equal amounts.
OrderIndependentUnlessTopAmountsTie ==
  pc = "summary" =>
    LET other == calculateFinancialSummary(ArrangedById(transactions), periodRange)
    IN /\ SameTotals(summary, other)
       /\ (AmountsDiffer(summary.topCategories) /\ AmountsDiffer(other.topCategories)) =>
            Entries(other.topCategories) = Entries(summary.topCategories)

CategorySumsDiffer(ts, range) ==
  \A c, d \in ExpenseCategories(ts, range) :
    c # d => CategorySum(ts, range, c) # CategorySum(ts, range, d)

AmountsAndPercentages(top) ==
  [i \in 1 .. Len(top) |-> <<top[i].amount, top[i].percentage>>]

\* C7 as amended: permuting the list leaves the four totals and the listed
\* amounts and percentages unchanged, and leaves the set of topCategories
\* entries unchanged whenever no two in-range expense categories, listed or
\* not, have equal sums.
OrderIndependentUnlessCategorySumsTie ==
  pc = "summary" =>
    LET other == calculateFinancialSummary(ArrangedById(transactions), periodRange)
    IN /\ SameTotals(summary, other)
       /\ AmountsAndPercentages(other.topCategories)
            = AmountsAndPercentages(summary.topCategories)
       /\ CategorySumsDiffer(transactions, periodRange) =>
            Entries(other.topCategories) = Entries(summary.topCategories)

\* Six transactions in range, not in the order of their ids, over five
\* categories whose sums all differ, one of them (Utilities) the sum of two
\* expenses.
SummaryOfDistinctCategorySums ==
  /\ pc = "summary"
  /\ Len(transactions) = 6
  /\ transactions # ArrangedById(transactions)
  /\ Cardinality(ExpenseCategories(transactions, periodRange)) = 5
  /\ CategorySumsDiffer(transactions, periodRange)
  /\ CategorySum(transactions, periodRange, "Utilities") = 3
  /\ Len(summary.topCategories) = 5

(***************************************************************************)
(* The label of getPeriodInfo.                                             *)
(***************************************************************************)
\* The label that describes a range: read off the local parts of its start.
LabelOfStart(period, startParts) ==
  CASE period = "month" -> [month |-> startParts.m, year |-> startParts.y]
    [] period = "quarter" -> [quarter |-> (startParts.m \div 3) + 1, year |-> startParts.y]
    [] period = "year" -> [year |-> startParts.y]

\* C11: the label returned by getPeriodInfo always describes the returned
\* current range: month and year, quarter ordinal and year, or year of
\* current.start, so that a quarter label names the quarter current covers.
LabelDescribesCurrent ==
  pc = "done" =>
    periodInfo.label = LabelOfStart(unit, LocalParts(periodInfo.current.start, tz))

(***************************************************************************)
(* Properties of calculateBudgetPerformance (SpecCalc).                    *)
(***************************************************************************)
\* The positions of the expenses of a category dated in the calendar period
\* that holds the clock's reading.
CategoryExpensePositions(ts, category, range) ==
  { j \in 1 .. Len(ts) : /\ ts[j].category = category
                         /\ ts[j].type = "expense"
                         /\ CalendarDateInRange(ts[j].date, range) }

\* C12: calculateBudgetPerformance returns one result per budget, in the same
\* order, with category, budgetAmount and period passed through, and with
\* spentAmount the sum of the expenses of the budget's category dated in the
\* current range of the requested unit, whatever spentAmount the input held.
SpentAmountIsCategoryExpenseOfCurrentPeriod ==
  pc = "budget" =>
    /\ Len(budgetPerformance) = Len(budgets)
    /\ \A i \in 1 .. Len(budgets) :
         /\ budgetPerformance[i].category = budgets[i].category
         /\ budgetPerformance[i].budgetAmount = budgets[i].budgetAmount
         /\ budgetPerformance[i].period = budgets[i].period
         /\ budgetPerformance[i].spentAmount =
              IndexSum(transactions,
                       CategoryExpensePositions(transactions, budgets[i].category,
                                                CurrentRange(unit, clock, tz)))

\* Two budgets, Housing then Food, over a previous-period Food expense, a
\* current Food expense and a current Food income: Housing spent 0 and Food 21,
\* neither the 7 the inputs carried.
BudgetsOverMixedTransactions ==
  /\ pc = "budget"
  /\ Len(budgets) = 2
  /\ budgets[1].category = "Housing" /\ budgets[1].spentAmount = 7
  /\ budgets[2].category = "Food" /\ budgets[2].spentAmount = 7
  /\ \E i, j, k \in 1 .. Len(transactions) :
       /\ transactions[i].type = "expense" /\ transactions[i].date = MidDecember
       /\ transactions[j].type = "expense" /\ transactions[j].date = MidJanuary
       /\ transactions[j].amount = 21
       /\ transactions[k].type = "income" /\ transactions[k].category = "Food"
  /\ budgetPerformance[1].spentAmount = 0
  /\ budgetPerformance[2].spentAmount = 21

(***************************************************************************)
(* calculations.ts: generateSpendingInsights                               *)
(*                                                                         *)
(* A message is a record: the template literal it is built from and the    *)
(* values interpolated into it.                                            *)
(***************************************************************************)
MaxInsightTxns == 2

\* Number.prototype.toFixed(1): the sign and the nearest number of tenths of
\* the magnitude, the larger one when two are equally near.
ToFixedTenths(magnitude, den) == ((2 * 10 * magnitude) + den) \div (2 * den)

ToFixed1(r) ==
  IF r.den = 0
    THEN [text |-> IF r.num = 0 THEN "NaN" ELSE IF r.num > 0 THEN "Infinity" ELSE "-Infinity"]
    ELSE [negative |-> r.num < 0, tenths |-> ToFixedTenths(Abs(r.num), r.den)]

\* Array.prototype.join(separator): the elements with the separator between.
RECURSIVE Join(_, _)
Join(strings, separator) ==
  IF strings = <<>> THEN <<>>
  ELSE IF Len(strings) = 1 THEN <<strings[1]>>
  ELSE <<strings[1], separator>> \o Join(Tail(strings), separator)

SavingsInsightInclusive(savingsRate) ==
  IF ~GreaterThan(savingsRate, 10) THEN <<[template |-> "savingsBelow10"]>>
  ELSE IF ~LessThan(savingsRate, 20) THEN <<[template |-> "excellentSavings"]>>
  ELSE <<>>

\* if (summary.savingsRate < 10) ... else if (summary.savingsRate > 20) ...
SavingsInsight(savingsRate) ==
  IF LessThan(savingsRate, 10) THEN <<[template |-> "savingsBelow10"]>>
  ELSE IF GreaterThan(savingsRate, 20) THEN <<[template |-> "excellentSavings"]>>
  ELSE <<>>

NotUnderBudgetCategories(performance) ==
  SelectSeq(performance, LAMBDA b : b.status # "under")

\* budgetPerformance.filter(b => b.status === 'over')
OverBudgetCategories(performance) ==
  SelectSeq(performance, LAMBDA b : b.status = "over")

\* overBudgetCategories.map(c => c.category)
CategoryNames(results) == [i \in 1 .. Len(results) |-> results[i].category]

\* if (overBudgetCategories.length > 0) insights.push(`... ${length} category(s): ${names.join(', ')}.`)
OverBudgetInsight(overBudgetCategories) ==
  IF Len(overBudgetCategories) > 0
    THEN <<[template |-> "overBudget",
            count |-> Len(overBudgetCategories),
            categories |-> Join(CategoryNames(overBudgetCategories), ", ")]>>
    ELSE <<>>

BudgetInsight(performance) == OverBudgetInsight(OverBudgetCategories(performance))

TrendInsightByChangeOnly(t) ==
  IF GreaterThan(t.changePercent, 15)
    THEN <<[template |-> "spendingIncreased", percent |-> ToFixed1(t.changePercent)]>>
  ELSE IF LessThan(t.changePercent, -10)
    THEN <<[template |-> "spendingReduced", percent |-> ToFixed1(MathAbs(t.changePercent))]>>
  ELSE <<>>

\* if (trends.trending === 'up' && trends.changePercent > 15) ...
\* else if (trends.trending === 'down' && trends.changePercent < -10) ...
TrendInsight(t) ==
  IF t.trending = "up" /\ GreaterThan(t.changePercent, 15)
    THEN <<[template |-> "spendingIncreased", percent |-> ToFixed1(t.changePercent)]>>
  ELSE IF t.trending = "down" /\ LessThan(t.changePercent, -10)
    THEN <<[template |-> "spendingReduced", percent |-> ToFixed1(MathAbs(t.changePercent))]>>
  ELSE <<>>

TopCategoryNoteInclusive(topCategory) ==
  IF ~LessThan(topCategory.percentage, 30)
    THEN <<[template |-> "topCategory",
            category |-> topCategory.category,
            percent |-> ToFixed1(topCategory.percentage)]>>
    ELSE <<>>

\* if (topCategory.percentage > 30) insights.push(`${category} accounts for ${percentage.toFixed(1)}% ...`)
TopCategoryNote(topCategory) ==
  IF GreaterThan(topCategory.percentage, 30)
    THEN <<[template |-> "topCategory",
            category |-> topCategory.category,
            percent |-> ToFixed1(topCategory.percentage)]>>
    ELSE <<>>

\* if (summary.topCategories.length > 0) { const topCategory = summary.topCategories[0] ... }
TopCategoryInsight(topCategories) ==
  IF Len(topCategories) > 0 THEN TopCategoryNote(topCategories[1]) ELSE <<>>

generateSpendingInsightsTrendFirst(s, performance, t) ==
  SavingsInsight(s.savingsRate) \o TrendInsight(t)
    \o BudgetInsight(performance) \o TopCategoryInsight(s.topCategories)

\* const insights = []; four rule groups push in turn; return insights
generateSpendingInsights(s, performance, t) ==
  SavingsInsight(s.savingsRate) \o BudgetInsight(performance)
    \o TrendInsight(t) \o TopCategoryInsight(s.topCategories)

(***************************************************************************)
(* Scenario "insights": generateSpendingInsights over the results of the   *)
(* three calculations for a list of transactions, and over summaries and   *)
(* trend records a caller builds itself with values on and next to the     *)
(* thresholds of the rules.                                                *)
(***************************************************************************)
Decimal(hundredths) == Fraction(hundredths, 100)

InsightTxns ==
  { Txn(0, 20, "expense", MidDecember, "Food"),
    Txn(0, 17, "expense", MidJanuary, "Food"),
    Txn(0, 23, "expense", MidJanuary, "Food"),
    Txn(0, 24, "expense", MidJanuary, "Food"),
    Txn(0, 10, "expense", MidJanuary, "Housing"),
    Txn(0, 20, "income", MidJanuary, "Food") }

InsightBudgets ==
  { <<>>,
    <<Budget("Food", 20), Budget("Housing", 20)>>,
    <<Budget("Housing", 5), Budget("Utilities", 5), Budget("Food", 20)>> }

SavingsRateInputs == { Decimal(999), Decimal(1000), Decimal(2000), Decimal(2001) }

TopCategoriesInputs ==
  { <<>>,
    <<[category |-> "Food", amount |-> 30, percentage |-> Decimal(3000)],
      [category |-> "Housing", amount |-> 70, percentage |-> Decimal(7000)]>>,
    <<[category |-> "Food", amount |-> 3001, percentage |-> Decimal(3001)]>> }

SummaryInputs ==
  { [totalIncome |-> 100, totalExpenses |-> 100, netSavings |-> 0,
     savingsRate |-> r, topCategories |-> tc] :
       r \in SavingsRateInputs, tc \in TopCategoriesInputs }

TrendInputs ==
  { [current |-> 0, previous |-> 0, changePercent |-> Decimal(c[2]), trending |-> c[1]] :
      c \in { <<"up", 1500>>, <<"up", 1501>>, <<"down", -1000>>, <<"down", -1001>>,
              <<"stable", 1600>>, <<"stable", -1100>> } }

AddInsightTxn == AddTransaction(InsightTxns, MaxInsightTxns)

\* generateSpendingInsights(summary, budgetPerformance, trends)
CallSpendingInsights ==
  /\ pc = "input"
  /\ periodInfo' = getPeriodInfo(unit, clock, tz)
  /\ periodRange' = periodInfo'.current
  /\ summary' \in {calculateFinancialSummary(transactions, periodRange')} \cup SummaryInputs
  /\ budgets' \in InsightBudgets
  /\ budgetPerformance' = calculateBudgetPerformance(transactions, budgets', periodInfo')
  /\ trends' \in {calculateSpendingTrends(transactions, periodInfo')} \cup TrendInputs
  /\ insights' = generateSpendingInsights(summary', budgetPerformance', trends')
  /\ pc' = "insights"
  /\ UNCHANGED <<tz, clock, ticks, unit, now, current, transactions>>
  /\ UNCHANGED storeVars
  /\ UNCHANGED appVars

InitInsights == InitCalc({0}, {"month"})

NextInsights == AddInsightTxn \/ CallSpendingInsights

SpecInsights == InitInsights /\ [][NextInsights]_vars

(***************************************************************************)
(* Properties of generateSpendingInsights (SpecInsights).                  *)
(***************************************************************************)
\* The returned list holds a message built from the template.
Emitted(template) == \E i \in 1 .. Len(insights) : insights[i].template = template

\* The number of returned messages built from one of the templates.
EmittedCount(templates) ==
  Cardinality({ i \in 1 .. Len(insights) : insights[i].template \in templates })

\* C13: the low-savings warning is emitted exactly when savingsRate < 10 and
\* the positive-savings message exactly when savingsRate > 20, never both,
\* and neither for a savingsRate in [10, 20].
SavingsInsightMatchesSavingsRate ==
  pc = "insights" =>
    /\ Emitted("savingsBelow10") <=>
         summary.savingsRate.num < 10 * summary.savingsRate.den
    /\ Emitted("excellentSavings") <=>
         summary.savingsRate.num > 20 * summary.savingsRate.den
    /\ ~(Emitted("savingsBelow10") /\ Emitted("excellentSavings"))
    /\ (/\ summary.savingsRate.num >= 10 * summary.savingsRate.den
        /\ summary.savingsRate.num <= 20 * summary.savingsRate.den)
         => EmittedCount({"savingsBelow10", "excellentSavings"}) = 0

\* A savings rate of exactly 10 has produced neither savings message.
SavingsRateOfTenEmitsNeither ==
  /\ pc = "insights"
  /\ summary.savingsRate = [num |-> 10, den |-> 1]
  /\ ~Emitted("savingsBelow10")
  /\ ~Emitted("excellentSavings")

\* A savings rate of exactly 20 has produced neither savings message.
SavingsRateOfTwentyEmitsNeither ==
  /\ pc = "insights"
  /\ summary.savingsRate = [num |-> 20, den |-> 1]
  /\ EmittedCount({"savingsBelow10", "excellentSavings"}) = 0

\* C14: the spending-increase warning is emitted exactly when trending = 'up'
\* and changePercent > 15, the spending-decrease commendation exactly when
\* trending = 'down' and changePercent < -10, never both; for a trend record
\* that calculateSpendingTrends produced, none for changePercent in [-10, 15].
TrendInsightMatchesTrend ==
  pc = "insights" =>
    /\ Emitted("spendingIncreased") <=>
         /\ trends.trending = "up"
         /\ trends.changePercent.num > 15 * trends.changePercent.den
    /\ Emitted("spendingReduced") <=>
         /\ trends.trending = "down"
         /\ trends.changePercent.num < (-10) * trends.changePercent.den
    /\ EmittedCount({"spendingIncreased", "spendingReduced"}) <= 1
    /\ (/\ trends = calculateSpendingTrends(transactions, periodInfo)
        /\ trends.changePercent.num >= (-10) * trends.changePercent.den
        /\ trends.changePercent.num <= 15 * trends.changePercent.den)
         => EmittedCount({"spendingIncreased", "spendingReduced"}) = 0

\* Spending rose from 20 to 23, by exactly 15 %: trending up and no message.
RiseOfFifteenPercentEmitsNothing ==
  /\ pc = "insights"
  /\ trends = calculateSpendingTrends(transactions, periodInfo)
  /\ trends.previous = 20 /\ trends.current = 23
  /\ trends.trending = "up"
  /\ trends.changePercent = [num |-> 15, den |-> 1]
  /\ EmittedCount({"spendingIncreased", "spendingReduced"}) = 0

\* The positions of the over-budget results.
OverPositions == { i \in 1 .. Len(budgetPerformance) : budgetPerformance[i].status = "over" }

\* The position of the k-th over-budget result.
KthOverPosition(k) ==
  CHOOSE i \in OverPositions : Cardinality({ j \in OverPositions : j <= i }) = k

\* The names a comma-joined list holds, in order.
NamesIn(joined) == [k \in 1 .. ((Len(joined) + 1) \div 2) |-> joined[2 * k - 1]]

\* C15: exactly one over-budget message is emitted when some budget result
\* has status 'over' and none otherwise; it states the number of over-budget
\* results and names exactly their categories, in input order.
OverBudgetInsightNamesOverBudgetCategories ==
  pc = "insights" =>
    /\ EmittedCount({"overBudget"}) = (IF OverPositions = {} THEN 0 ELSE 1)
    /\ \A i \in 1 .. Len(insights) :
         insights[i].template = "overBudget" =>
           /\ insights[i].count = Cardinality(OverPositions)
           /\ Len(NamesIn(insights[i].categories)) = Cardinality(OverPositions)
           /\ \A k \in 1 .. Cardinality(OverPositions) :
                NamesIn(insights[i].categories)[k]
                  = budgetPerformance[KthOverPosition(k)].category
           /\ \A k \in 1 .. Len(insights[i].categories) :
                k % 2 = 0 => insights[i].categories[k] = ", "

\* Housing and Food are over budget with Utilities under budget between them.
TwoOfThreeBudgetsOver ==
  /\ pc = "insights"
  /\ Len(budgetPerformance) = 3
  /\ budgetPerformance[1].status = "over"
  /\ budgetPerformance[2].status = "under"
  /\ budgetPerformance[3].status = "over"
  /\ \E i \in 1 .. Len(insights) :
       /\ insights[i].template = "overBudget"
       /\ insights[i].count = 2
       /\ insights[i].categories = <<"Housing", ", ", "Food">>

\* C16: the concentration note is emitted exactly when topCategories is not
\* empty and the percentage of its first entry is greater than 30; it names
\* that entry, which in a summary calculateFinancialSummary produced is a
\* category with the largest amount.
TopCategoryInsightMatchesFirstEntry ==
  pc = "insights" =>
    /\ Emitted("topCategory") <=>
         /\ Len(summary.topCategories) > 0
         /\ summary.topCategories[1].percentage.num
              > 30 * summary.topCategories[1].percentage.den
    /\ EmittedCount({"topCategory"}) <= 1
    /\ \A i \in 1 .. Len(insights) :
         insights[i].template = "topCategory" =>
           /\ insights[i].category = summary.topCategories[1].category
           /\ summary = calculateFinancialSummary(transactions, periodRange) =>
                \A c \in ExpenseCategories(transactions, periodRange) :
                  CategorySum(transactions, periodRange, c)
                    <= CategorySum(transactions, periodRange, insights[i].category)

\* The first category holds exactly 30 % and no note is emitted.
ExactlyThirtyPercentEmitsNothing ==
  /\ pc = "insights"
  /\ Len(summary.topCategories) > 0
  /\ summary.topCategories[1].percentage = [num |-> 30, den |-> 1]
  /\ ~Emitted("topCategory")

\* The note names Food, the larger of two categories of a produced summary.
NoteNamesLargestOfTwoCategories ==
  /\ pc = "insights"
  /\ summary = calculateFinancialSummary(transactions, periodRange)
  /\ Len(summary.topCategories) = 2
  /\ \E i \in 1 .. Len(insights) :
       insights[i].template = "topCategory" /\ insights[i].category = "Food"

\* The rule group of a template, numbered in the order of the source.
GroupOf(template) ==
  CASE template \in {"savingsBelow10", "excellentSavings"} -> 1
    [] template = "overBudget" -> 2
    [] template \in {"spendingIncreased", "spendingReduced"} -> 3
    [] template = "topCategory" -> 4

\* The messages of a rule group in a list.
OfGroup(list, g) == SelectSeq(list, LAMBDA m : GroupOf(m.template) = g)

\* Other arguments a caller could have passed.
OtherPerformances ==
  { <<>>,
    <<[category |-> "Food", budgetAmount |-> 10, spentAmount |-> 20, period |-> "month",
       status |-> "over", percentUsed |-> [num |-> 200, den |-> 1]]>> }

OtherTrends ==
  { [current |-> 0, previous |-> 0, changePercent |-> Zero, trending |-> "stable"],
    [current |-> 40, previous |-> 20, changePercent |-> [num |-> 100, den |-> 1],
     trending |-> "up"] }

\* C17: the returned list holds at most four messages, at most one of each
\* rule group, in the order savings rate, over budget, trend, top category,
\* and the message of a group is the same whatever the inputs of the other
\* groups are.
InsightsAreOrderedAndIndependent ==
  pc = "insights" =>
    /\ Len(insights) <= 4
    /\ \A i, j \in 1 .. Len(insights) :
         i < j => GroupOf(insights[i].template) < GroupOf(insights[j].template)
    /\ \A p \in OtherPerformances, t \in OtherTrends :
         /\ \A tc \in TopCategoriesInputs :
              OfGroup(generateSpendingInsights(
                        [summary EXCEPT !.topCategories = tc], p, t), 1)
                = OfGroup(insights, 1)
         /\ \A r \in SavingsRateInputs :
              OfGroup(generateSpendingInsights(
                        [summary EXCEPT !.savingsRate = r], p, t), 4)
                = OfGroup(insights, 4)
    /\ \A s \in SummaryInputs :
         /\ \A t \in OtherTrends :
              OfGroup(generateSpendingInsights(s, budgetPerformance, t), 2)
                = OfGroup(insights, 2)
         /\ \A p \in OtherPerformances :
              OfGroup(generateSpendingInsights(s, p, trends), 3) = OfGroup(insights, 3)

\* All four rule groups have emitted a message.
AllFourInsightsEmitted ==
  /\ pc = "insights"
  /\ Len(insights) = 4
  /\ insights[1].template = "savingsBelow10"
  /\ insights[2].template = "overBudget"
  /\ insights[3].template = "spendingIncreased"
  /\ insights[4].template = "topCategory"

(***************************************************************************)
(* backend/src/database.ts                                                 *)
(*                                                                         *)
(* A JavaScript value is a record with its type; a number is held in       *)
(* thousandths (0.01 is 10), a string as the sequence of its pieces, each  *)
(* piece a blank " " or a run of non-blank characters.  A call runs from   *)
(* its first statement to its return or throw without another call in      *)
(* between.                                                                *)
(***************************************************************************)
MaxWages == 3
MaxExpenses == 2
MaxSeconds == 1

Undefined == [type |-> "undefined"]
Null == [type |-> "null"]
Num(thousandths) == [type |-> "number", value |-> thousandths]
Str(pieces) == [type |-> "string", value |-> pieces]

\* ToBoolean: undefined, null, 0 and "" are falsy.
Truthy(v) ==
  CASE v.type = "number" -> v.value # 0
    [] v.type = "string" -> v.value # <<>>
    [] OTHER -> FALSE

KeepBlanks(pieces) == pieces

RECURSIVE TrimStart(_)
TrimStart(pieces) ==
  IF pieces # <<>> /\ Head(pieces) = " " THEN TrimStart(Tail(pieces)) ELSE pieces

RECURSIVE TrimEnd(_)
TrimEnd(pieces) ==
  IF pieces # <<>> /\ pieces[Len(pieces)] = " "
    THEN TrimEnd(SubSeq(pieces, 1, Len(pieces) - 1))
    ELSE pieces

\* String.prototype.trim
Trim(pieces) == TrimEnd(TrimStart(pieces))

\* value?.trim(): undefined stays undefined.
OptionalTrim(v) == IF v.type = "string" THEN Str(Trim(v.value)) ELSE Undefined

\* value || null
OrNull(v) == IF Truthy(v) THEN v ELSE Null

\* The INSERT OR IGNORE of the default categories (name is UNIQUE).
DefaultCategories ==
  << [name |-> "Food", color |-> "#10B981"],
     [name |-> "Transportation", color |-> "#3B82F6"],
     [name |-> "Housing", color |-> "#8B5CF6"],
     [name |-> "Entertainment", color |-> "#F59E0B"],
     [name |-> "Utilities", color |-> "#EF4444"] >>

InsertAlways(rows, new) ==
  rows \o [i \in 1 .. Len(new) |-> [id |-> Len(rows) + i,
                                    name |-> new[i].name,
                                    color |-> new[i].color]]

RECURSIVE InsertOrIgnore(_, _)
InsertOrIgnore(rows, new) ==
  IF new = <<>> THEN rows
  ELSE InsertOrIgnore(
         IF \E i \in 1 .. Len(rows) : rows[i].name = Head(new).name
           THEN rows
           ELSE Append(rows, [id |-> Len(rows) + 1,
                              name |-> Head(new).name,
                              color |-> Head(new).color]),
         Tail(new))

\* The handle open() resolves to.
Connection == [connection |-> "financial-tool.db"]

\* if (!db) await initializeDatabase(): open the file, create the tables that
\* do not exist yet and seed the categories; with a handle, nothing.
EnsureInitialized ==
  /\ db' = Connection
  /\ categories' = IF db = None THEN InsertOrIgnore(categories, DefaultCategories)
                   ELSE categories

(***************************************************************************)
(* Wages                                                                   *)
(***************************************************************************)
WageErrorWithoutSignCheck(wage) ==
  IF ~Truthy(wage.monthlyAmount)
    THEN "Monthly amount must be greater than 0"
  ELSE IF ~Truthy(wage.effectiveDate) THEN "Effective date is required"
  ELSE ""

\* The validation of addWageEntry: the message it throws, "" when it passes.
WageError(wage) ==
  IF ~Truthy(wage.monthlyAmount) \/ wage.monthlyAmount.value <= 0
    THEN "Monthly amount must be greater than 0"
  ELSE IF ~Truthy(wage.effectiveDate) THEN "Effective date is required"
  ELSE ""

\* INSERT INTO wages (monthly_amount, effective_date, description) VALUES (?, ?, ?)
\* with id from AUTOINCREMENT and created_at from CURRENT_TIMESTAMP.
WageRow(id, wage, createdAt) ==
  [id |-> id,
   monthlyAmount |-> wage.monthlyAmount.value,
   effectiveDate |-> wage.effectiveDate.value,
   description |-> OrNull(wage.description),
   createdAt |-> createdAt]

\* What addWageEntry(wage) does on a table: throws, or returns the new row.
addWageEntry(wage, rows, createdAt) ==
  IF WageError(wage) # ""
    THEN [threw |-> WageError(wage)]
    ELSE [returned |-> WageRow(Len(rows) + 1, wage, createdAt)]

\* The table after a call with that outcome.
RowsAfter(outcome, rows) ==
  IF "returned" \in DOMAIN outcome THEN Append(rows, outcome.returned) ELSE rows

\* The order of two strings under SQLite's BINARY collation, for the strings
\* of the model: the rank of their single piece.
CollationRank ==
  ("2024-01-01" :> 1) @@ ("2024-01-15" :> 2) @@ ("2024-02-01" :> 3) @@ ("soon" :> 4)

TextRank(pieces) == IF pieces = <<>> THEN 0 ELSE CollationRank[pieces[1]]

\* ORDER BY <date> DESC, created_at DESC: a may come before b.
MayPrecede(a, b, dateOfA, dateOfB) ==
  \/ TextRank(dateOfA) > TextRank(dateOfB)
  \/ TextRank(dateOfA) = TextRank(dateOfB) /\ a.createdAt >= b.createdAt

WageMayPrecede(a, b) == MayPrecede(a, b, a.effectiveDate, b.effectiveDate)

\* The arrangements of 1 .. n.
Arrangements(n) ==
  { f \in [1 .. n -> 1 .. n] : \A i, j \in 1 .. n : i # j => f[i] # f[j] }

\* SELECT ... FROM wages ORDER BY effective_date DESC, created_at DESC: every
\* arrangement of the rows the ORDER BY allows; rows equal in both columns
\* come in an order SQLite does not define.
WagesInOrder(rows) ==
  { [i \in 1 .. Len(rows) |-> rows[f[i]]] : f \in
      { g \in Arrangements(Len(rows)) :
          \A i, j \in 1 .. Len(rows) : i < j => WageMayPrecede(rows[g[i]], rows[g[j]]) } }

\* ... LIMIT 1, and wage || null
FirstWages(rows) ==
  IF rows = <<>> THEN {Null}
  ELSE { rows[i] : i \in { k \in 1 .. Len(rows) :
                            \A j \in 1 .. Len(rows) : WageMayPrecede(rows[k], rows[j]) } }

\* wageEntrySchema.safeParse(body).success
WageSchemaAccepts(body) ==
  /\ body.monthlyAmount.type = "number"
  /\ body.monthlyAmount.value >= 10
  /\ body.monthlyAmount.value <= 1000000 * 1000
  /\ body.effectiveDate.type = "string"
  /\ body.effectiveDate.value # <<>>
  /\ body.description.type \in {"string", "undefined"}

\* res.status(201).json(...) / res.status(500).json(...) for the outcome of
\* the database call.
PostResponse(outcome) ==
  IF "returned" \in DOMAIN outcome
    THEN [status |-> 201, success |-> TRUE, data |-> outcome.returned]
    ELSE [status |-> 500, success |-> FALSE, error |-> outcome.threw]

BadRequest == [status |-> 400, success |-> FALSE, error |-> "Invalid input data"]

\* The arguments and bodies of the wage calls.
WageAmounts == { Undefined, Num(0), Num(-1000), Num(1), Num(2500 * 1000) }
WageDates == { Undefined, Str(<<>>), Str(<<"2024-01-01">>), Str(<<"2024-02-01">>) }

WageInputs ==
  { [monthlyAmount |-> a, effectiveDate |-> d, description |-> Undefined] :
      a \in WageAmounts, d \in WageDates }

WageBodies ==
  WageInputs \cup
    { [monthlyAmount |-> Str(<<"2500">>), effectiveDate |-> Str(<<"2024-01-01">>),
       description |-> Undefined],
      [monthlyAmount |-> Num(1000000 * 1000 + 10), effectiveDate |-> Str(<<"2024-01-01">>),
       description |-> Undefined] }

\* addWageEntry(wage), called directly.
AddWageEntry ==
  /\ Len(wages) < MaxWages
  /\ \E wage \in WageInputs :
       /\ request' = [op |-> "addWageEntry", arg |-> wage]
       /\ response' = addWageEntry(wage, wages, timestamp)
  /\ EnsureInitialized
  /\ wages' = RowsAfter(response', wages)
  /\ UNCHANGED <<expenses, timestamp, pc>>
  /\ UNCHANGED <<calendarVars, calcVars, insightVars, appVars>>

\* POST /api/wage
PostWage ==
  /\ Len(wages) < MaxWages
  /\ \E body \in WageBodies :
       /\ request' = [op |-> "POST /api/wage", arg |-> body]
       /\ IF WageSchemaAccepts(body)
            THEN /\ response' = PostResponse(addWageEntry(body, wages, timestamp))
                 /\ wages' = RowsAfter(addWageEntry(body, wages, timestamp), wages)
                 /\ EnsureInitialized
            ELSE /\ response' = BadRequest
                 /\ UNCHANGED <<wages, db, categories>>
  /\ UNCHANGED <<expenses, timestamp, pc>>
  /\ UNCHANGED <<calendarVars, calcVars, insightVars, appVars>>

\* getCurrentWage()
GetCurrentWage ==
  /\ request' = [op |-> "getCurrentWage"]
  /\ EnsureInitialized
  /\ \E first \in FirstWages(wages) : response' = [returned |-> first]
  /\ UNCHANGED <<wages, expenses, timestamp, pc>>
  /\ UNCHANGED <<calendarVars, calcVars, insightVars, appVars>>

\* getWageHistory()
GetWageHistory ==
  /\ request' = [op |-> "getWageHistory"]
  /\ EnsureInitialized
  /\ \E rows \in WagesInOrder(wages) : response' = [returned |-> rows]
  /\ UNCHANGED <<wages, expenses, timestamp, pc>>
  /\ UNCHANGED <<calendarVars, calcVars, insightVars, appVars>>

\* A second of CURRENT_TIMESTAMP passes between two calls.
SecondPasses ==
  /\ timestamp < MaxSeconds
  /\ timestamp' = timestamp + 1
  /\ UNCHANGED <<db, wages, expenses, categories, request, response, pc>>
  /\ UNCHANGED <<calendarVars, calcVars, insightVars, appVars>>

InitWages == InitCalc({0}, {"month"})

NextWages == AddWageEntry \/ PostWage \/ GetCurrentWage \/ GetWageHistory \/ SecondPasses

SpecWages == InitWages /\ [][NextWages]_vars

(***************************************************************************)
(* Expenses                                                                *)
(***************************************************************************)
\* The validation of addExpenseEntry: the message it throws, "" when it passes.
ExpenseErrorOfTrimmed(expense, description, category) ==
  IF ~Truthy(expense.amount) \/ expense.amount.value <= 0
    THEN "Amount must be greater than 0"
  ELSE IF ~Truthy(description) THEN "Description is required"
  ELSE IF ~Truthy(category) THEN "Category is required"
  ELSE IF ~Truthy(expense.date) THEN "Date is required"
  ELSE ""

ExpenseError(expense) ==
  ExpenseErrorOfTrimmed(expense, OptionalTrim(expense.description),
                        OptionalTrim(expense.category))

\* INSERT INTO expenses (amount, description, category, date) VALUES (?, ?, ?, ?)
\* with [amount, description.trim(), category.trim(), date].
ExpenseRow(id, expense, createdAt) ==
  [id |-> id,
   amount |-> expense.amount.value,
   description |-> Trim(expense.description.value),
   category |-> Trim(expense.category.value),
   date |-> expense.date.value,
   createdAt |-> createdAt]

\* What addExpenseEntry(expense) does on a table: throws, or returns the new row.
addExpenseEntry(expense, rows, createdAt) ==
  IF ExpenseError(expense) # ""
    THEN [threw |-> ExpenseError(expense)]
    ELSE [returned |-> ExpenseRow(Len(rows) + 1, expense, createdAt)]

ExpenseInputs ==
  { [amount |-> a, description |-> d, category |-> c, date |-> t] :
      a \in { Undefined, Num(0), Num(-1000), Num(12500) },
      d \in { Undefined, Str(<<" ">>), Str(<<" ", "Lunch", " ", "out", " ">>) },
      c \in { Undefined, Str(<<" ">>), Str(<<" ", "Pets">>) },
      t \in { Undefined, Str(<<>>), Str(<<"2024-01-15">>), Str(<<"soon">>) } }

\* addExpenseEntry(expense), called directly.
AddExpenseEntry ==
  /\ Len(expenses) < MaxExpenses
  /\ \E expense \in ExpenseInputs :
       /\ request' = [op |-> "addExpenseEntry", arg |-> expense]
       /\ response' = addExpenseEntry(expense, expenses, timestamp)
  /\ EnsureInitialized
  /\ expenses' = RowsAfter(response', expenses)
  /\ UNCHANGED <<wages, timestamp, pc>>
  /\ UNCHANGED <<calendarVars, calcVars, insightVars, appVars>>

InitExpenses == InitCalc({0}, {"month"})

NextExpenses == AddExpenseEntry \/ SecondPasses

SpecExpenses == InitExpenses /\ [][NextExpenses]_vars

(***************************************************************************)
(* Properties of the wage store (SpecWages).                               *)
(***************************************************************************)
\* The last call made was op.
Asked(op) == request # None /\ request.op = op

\* Wage a has the later effectiveDate, or the same one and was created later
\* (ids are handed out in creation order).
LaterWage(a, b) ==
  \/ TextRank(a.effectiveDate) > TextRank(b.effectiveDate)
  \/ TextRank(a.effectiveDate) = TextRank(b.effectiveDate) /\ a.id > b.id

\* C18: getWageHistory returns every stored wage entry ordered by
\* effectiveDate descending and, among equal effectiveDates, by creation
\* descending; getCurrentWage returns the first entry of that order, the most
\* recently created one among the entries with the latest effectiveDate, or
\* null when there is none.
WagesByDateThenCreation ==
  /\ Asked("getWageHistory") =>
       /\ Len(response.returned) = Len(wages)
       /\ \A k \in 1 .. Len(wages) :
            \E i \in 1 .. Len(response.returned) : response.returned[i] = wages[k]
       /\ \A i, j \in 1 .. Len(response.returned) :
            i < j => LaterWage(response.returned[i], response.returned[j])
  /\ Asked("getCurrentWage") =>
       IF wages = <<>> THEN response.returned = Null
       ELSE /\ \E k \in 1 .. Len(wages) : response.returned = wages[k]
            /\ \A k \in 1 .. Len(wages) :
                 wages[k] # response.returned => LaterWage(response.returned, wages[k])

\* The same statement for tables in which no two entries with the same
\* effectiveDate were created within the same second.
WagesByDateThenCreationUnlessSameSecond ==
  (\A i, j \in 1 .. Len(wages) :
     (i # j /\ wages[i].effectiveDate = wages[j].effectiveDate)
       => wages[i].createdAt # wages[j].createdAt)
    => WagesByDateThenCreation

\* The argument lacks a monthlyAmount greater than 0 or an effectiveDate.
WageArgumentIsIncomplete(arg) ==
  \/ arg.monthlyAmount.type = "undefined"
  \/ arg.monthlyAmount.type = "number" /\ arg.monthlyAmount.value <= 0
  \/ arg.effectiveDate.type = "undefined"
  \/ arg.effectiveDate = Str(<<>>)

\* C19: every wage entry in the store has monthlyAmount > 0; addWageEntry
\* throws, and POST /api/wage answers an error, for a missing, zero or
\* negative monthlyAmount and for a missing effectiveDate, and such a call
\* leaves the wages table as it was.
StoredWagesArePositive ==
  [][ /\ \A i \in 1 .. Len(wages') : wages'[i].monthlyAmount > 0
      /\ (/\ request' # None
          /\ request'.op \in {"addWageEntry", "POST /api/wage"}
          /\ WageArgumentIsIncomplete(request'.arg))
           => /\ wages' = wages
              /\ request'.op = "addWageEntry" => "threw" \in DOMAIN response'
              /\ request'.op = "POST /api/wage" =>
                   response'.status = 400 /\ ~response'.success ]_vars

\* addWageEntry has thrown for a negative monthlyAmount on a table that
\* holds an entry.
NegativeWageRejected ==
  /\ Asked("addWageEntry")
  /\ request.arg.monthlyAmount = Num(-1000)
  /\ request.arg.effectiveDate = Str(<<"2024-01-01">>)
  /\ response = [threw |-> "Monthly amount must be greater than 0"]
  /\ Len(wages) = 1

\* POST /api/wage has answered 400 for a body without effectiveDate.
PostWithoutDateRejected ==
  /\ Asked("POST /api/wage")
  /\ request.arg.effectiveDate = Undefined
  /\ request.arg.monthlyAmount = Num(2500 * 1000)
  /\ response.status = 400
  /\ Len(wages) = 1

(***************************************************************************)
(* Properties of the expense store (SpecExpenses).                         *)
(***************************************************************************)
\* The string is made of blanks only (or is empty).
AllBlank(pieces) == \A i \in 1 .. Len(pieces) : pieces[i] = " "

\* The string is not empty and neither starts nor ends with a blank.
TrimmedAndNotEmpty(pieces) ==
  /\ pieces # <<>>
  /\ pieces[1] # " "
  /\ pieces[Len(pieces)] # " "

\* One of the four fields of the argument is missing or empty.
ExpenseArgumentIsIncomplete(arg) ==
  \/ arg.amount.type = "undefined"
  \/ arg.amount.type = "number" /\ arg.amount.value <= 0
  \/ arg.description.type = "undefined"
  \/ arg.description.type = "string" /\ AllBlank(arg.description.value)
  \/ arg.category.type = "undefined"
  \/ arg.category.type = "string" /\ AllBlank(arg.category.value)
  \/ arg.date.type = "undefined"
  \/ arg.date = Str(<<>>)

\* C20: every stored expense has amount > 0, a non-empty trimmed
\* description, a non-empty category and a date; addExpenseEntry throws
\* before the INSERT when one of the four fields is missing or invalid, and
\* the expenses table is then as it was.
NoPartialExpenseIsStored ==
  [][ /\ \A i \in 1 .. Len(expenses') :
           /\ expenses'[i].amount > 0
           /\ TrimmedAndNotEmpty(expenses'[i].description)
           /\ TrimmedAndNotEmpty(expenses'[i].category)
           /\ expenses'[i].date # <<>>
      /\ (/\ request' # None
          /\ request'.op = "addExpenseEntry"
          /\ ExpenseArgumentIsIncomplete(request'.arg))
           => /\ expenses' = expenses
              /\ "threw" \in DOMAIN response' ]_vars

\* A blank description has been rejected on a table that holds an expense
\* whose description was stored trimmed.
BlankDescriptionRejected ==
  /\ Asked("addExpenseEntry")
  /\ request.arg.amount = Num(12500)
  /\ request.arg.description = Str(<<" ">>)
  /\ response = [threw |-> "Description is required"]
  /\ Len(expenses) = 1
  /\ expenses[1].description = <<"Lunch", " ", "out">>
  /\ expenses[1].category = <<"Pets">>

(***************************************************************************)
(* getPeriodInfo while the clock advances (SpecPeriod).                    *)
(***************************************************************************)
\* C27: within one getPeriodInfo call current, previous and label agree with
\* one another even when the clock passes a month, quarter or year boundary
\* during the call: previous is the calendar period right before current, its
\* last instant is the one before current.start, and the label names the
\* period current covers.
PeriodInfoIsConsistentWhileClockAdvances ==
  pc = "done" =>
    /\ periodInfo.previous =
         PrecedingCalendarPeriod(unit, LocalParts(periodInfo.current.start, tz).y,
                                 LocalParts(periodInfo.current.start, tz).m, tz)
    /\ NextInstant(periodInfo.previous.end) = periodInfo.current.start
    /\ periodInfo.label = LabelOfStart(unit, LocalParts(periodInfo.current.start, tz))

\* The same for the two ranges alone: previous ends right before current
\* starts.  It fails for every unit, the label set aside.
PreviousEndsRightBeforeCurrent ==
  pc = "done" => NextInstant(periodInfo.previous.end) = periodInfo.current.start

(***************************************************************************)
(* generateSpendingInsights over a summary of calculateFinancialSummary    *)
(* (SpecInsights).                                                         *)
(***************************************************************************)
\* The summary handed to generateSpendingInsights is the one that
\* calculateFinancialSummary returned for the transactions and the range.
SummaryWasCalculated == summary = calculateFinancialSummary(transactions, periodRange)

\* C30: for a summary produced by calculateFinancialSummary with
\* totalIncome = 0 (the empty list included) savingsRate is 0 and the
\* low-savings warning is emitted; the warning is also emitted whenever
\* totalExpenses exceeds totalIncome, savingsRate being negative when there
\* is income.
NoIncomeOrOverspendingEmitsLowSavingsWarning ==
  (pc = "insights" /\ SummaryWasCalculated) =>
    /\ summary.totalIncome = 0 =>
         /\ summary.savingsRate = Zero
         /\ Emitted("savingsBelow10")
         /\ ~Emitted("excellentSavings")
    /\ summary.totalExpenses > summary.totalIncome =>
         /\ Emitted("savingsBelow10")
         /\ summary.totalIncome > 0 => summary.savingsRate.num < 0

\* generateSpendingInsights has warned about low savings for the summary of
\* an empty list of transactions.
EmptyListEmitsLowSavingsWarning ==
  /\ pc = "insights"
  /\ transactions = <<>>
  /\ SummaryWasCalculated
  /\ summary.totalIncome = 0
  /\ Emitted("savingsBelow10")

\* The same for a period with an income of 20 and expenses of 24.
OverspendingEmitsLowSavingsWarning ==
  /\ pc = "insights"
  /\ SummaryWasCalculated
  /\ summary.totalIncome = 20
  /\ summary.totalExpenses = 24
  /\ summary.savingsRate.num < 0
  /\ Emitted("savingsBelow10")

(***************************************************************************)
(* The expense routes of the API.  A string a route inspects is spelled    *)
(* character by character where its characters matter (dates, the limit    *)
(* parameter); a word of a description is one piece.                       *)
(***************************************************************************)
\* String.prototype.length
RECURSIVE Length(_)
Length(pieces) == IF pieces = <<>> THEN 0 ELSE Len(Head(pieces)) + Length(Tail(pieces))

\* The code units of the characters the routes look at.
CharCode ==
  ("+" :> 43) @@ ("-" :> 45) @@ ("." :> 46) @@ ("0" :> 48) @@ ("1" :> 49) @@ ("2" :> 50)
    @@ ("3" :> 51) @@ ("4" :> 52) @@ ("5" :> 53) @@ ("6" :> 54) @@ ("7" :> 55)
    @@ ("8" :> 56) @@ ("9" :> 57) @@ ("a" :> 97) @@ ("b" :> 98) @@ ("c" :> 99)

\* \d
IsDigit(char) == char \in DOMAIN CharCode /\ CharCode[char] >= 48 /\ CharCode[char] <= 57

\* /^\d{4}-\d{2}-\d{2}$/
MatchesDateRegex(chars) ==
  /\ Len(chars) = 10
  /\ Length(chars) = 10
  /\ \A i \in {1, 2, 3, 4, 6, 7, 9, 10} : IsDigit(chars[i])
  /\ chars[5] = "-"
  /\ chars[8] = "-"

\* z.enum(['Food', 'Transportation', 'Housing', 'Entertainment', 'Utilities'])
CategoryEnum == { "Food", "Transportation", "Housing", "Entertainment", "Utilities" }

\* expenseEntrySchema.safeParse(body).success: the checks of a string run in
\* the order they are written, min(1) and max(200) on the string as sent and
\* trim() after them.
ExpenseSchemaAccepts(body) ==
  /\ body.amount.type = "number"
  /\ body.amount.value >= 10
  /\ body.amount.value <= 100000 * 1000
  /\ body.description.type = "string"
  /\ Length(body.description.value) >= 1
  /\ Length(body.description.value) <= 200
  /\ body.category.type = "string"
  /\ \E name \in CategoryEnum : body.category.value = <<name>>
  /\ body.date.type = "string"
  /\ Length(body.date.value) >= 1
  /\ MatchesDateRegex(body.date.value)

\* validation.data: the body with the description trimmed.
ExpenseSchemaData(body) ==
  [body EXCEPT !.description = Str(Trim(body.description.value))]

\* A string of n copies of a word.
Repeated(word, n) == [i \in 1 .. n |-> word]

Jan15 == <<"2", "0", "2", "4", "-", "0", "1", "-", "1", "5">>
Feb01 == <<"2", "0", "2", "4", "-", "0", "2", "-", "0", "1">>

LunchOnFeb01 ==
  [amount |-> Num(12500), description |-> Str(<<"Lunch">>),
   category |-> Str(<<"Food">>), date |-> Str(Feb01)]

\* The bodies sent to POST /api/expenses: an acceptable one, and the same
\* with one field on, next to or beyond a limit of the schema.
ExpenseBodies ==
  { LunchOnFeb01 }
    \cup { [LunchOnFeb01 EXCEPT !.amount = a] :
             a \in { Undefined, Str(<<"12.5">>), Num(0), Num(9), Num(10),
                     Num(100000 * 1000), Num(100000 * 1000 + 10) } }
    \cup { [LunchOnFeb01 EXCEPT !.description = d] :
             d \in { Undefined, Str(<<>>), Str(<<" ", " ">>), Str(<<" ", "Lunch", " ">>),
                     Str(Repeated("Lunch", 40)), Str(Repeated("Lunch", 40) \o <<" ">>),
                     Str(Repeated("Lunch", 40) \o <<"out">>) } }
    \cup { [LunchOnFeb01 EXCEPT !.category = c] :
             c \in { Undefined, Str(<<"Pets">>), Str(<<" ", "Food">>), Str(<<"Utilities">>) } }
    \cup { [LunchOnFeb01 EXCEPT !.date = t] :
             t \in { Undefined, Str(<<>>), Str(Jan15), Str(<<"2", "0", "2", "4", "-", "1", "-", "5">>),
                     Str(<<"1", "5", "-", "0", "1", "-", "2", "0", "2", "4">>),
                     Str(Jan15 \o <<" ">>) } }

\* POST /api/expenses
PostExpenses ==
  /\ Len(expenses) < MaxExpenses
  /\ \E body \in ExpenseBodies :
       /\ request' = [op |-> "POST /api/expenses", arg |-> body]
       /\ IF ExpenseSchemaAccepts(body)
            THEN /\ response' =
                      PostResponse(addExpenseEntry(ExpenseSchemaData(body), expenses, timestamp))
                 /\ expenses' =
                      RowsAfter(addExpenseEntry(ExpenseSchemaData(body), expenses, timestamp),
                                expenses)
                 /\ EnsureInitialized
            ELSE /\ response' = BadRequest
                 /\ UNCHANGED <<expenses, db, categories>>
  /\ UNCHANGED <<wages, timestamp, pc>>
  /\ UNCHANGED <<calendarVars, calcVars, insightVars, appVars>>

\* NaN, the number parseInt returns for a string that starts with no digit.
NaN == [type |-> "number", nan |-> TRUE]

RECURSIVE DigitPrefix(_)
DigitPrefix(chars) ==
  IF chars # <<>> /\ IsDigit(Head(chars))
    THEN <<Head(chars)>> \o DigitPrefix(Tail(chars))
    ELSE <<>>

RECURSIVE DecimalValue(_, _)
DecimalValue(digits, value) ==
  IF digits = <<>> THEN value
  ELSE DecimalValue(Tail(digits), 10 * value + CharCode[Head(digits)] - 48)

ParsedDigits(sign, digits) ==
  IF digits = <<>> THEN NaN ELSE Num(sign * DecimalValue(digits, 0) * 1000)

\* parseInt(string) for a string without a 0x prefix: leading white space is
\* skipped, a sign is read, and the digits up to the first other character
\* are the value; NaN when there is no digit.
parseInt(chars) ==
  IF TrimStart(chars) # <<>> /\ Head(TrimStart(chars)) = "-"
    THEN ParsedDigits(-1, DigitPrefix(Tail(TrimStart(chars))))
  ELSE IF TrimStart(chars) # <<>> /\ Head(TrimStart(chars)) = "+"
    THEN ParsedDigits(1, DigitPrefix(Tail(TrimStart(chars))))
  ELSE ParsedDigits(1, DigitPrefix(TrimStart(chars)))

\* const limit = limitParam ? parseInt(limitParam as string) : 30
LimitOf(limitParam) == IF Truthy(limitParam) THEN parseInt(limitParam.value) ELSE Num(30 * 1000)

\* limit < 1 || limit > 100: both comparisons are false for NaN.
LimitOutOfRange(limit) ==
  IF limit = NaN THEN FALSE ELSE limit.value < 1 * 1000 \/ limit.value > 100 * 1000

\* The order of two strings under SQLite's BINARY collation.
RECURSIVE TextLess(_, _)
TextLess(a, b) ==
  IF b = <<>> THEN FALSE
  ELSE IF a = <<>> THEN TRUE
  ELSE IF Head(a) = Head(b) THEN TextLess(Tail(a), Tail(b))
  ELSE CharCode[Head(a)] < CharCode[Head(b)]

\* ORDER BY date DESC, created_at DESC: a may come before b.
ExpenseMayPrecede(a, b) ==
  \/ TextLess(b.date, a.date)
  \/ a.date = b.date /\ a.createdAt >= b.createdAt

ExpensesInOrder(rows) ==
  { [i \in 1 .. Len(rows) |-> rows[f[i]]] : f \in
      { g \in Arrangements(Len(rows)) :
          \A i, j \in 1 .. Len(rows) : i < j => ExpenseMayPrecede(rows[g[i]], rows[g[j]]) } }

\* LIMIT n: a negative n is no limit.
FirstRows(rows, n) == SubSeq(rows, 1, IF n < 0 \/ n > Len(rows) THEN Len(rows) ELSE n)

\* What getRecentExpenses(limit) can do on a table: return the first rows of
\* an order the ORDER BY allows, or throw, because SQLite binds NaN as NULL
\* and rejects LIMIT NULL (datatype mismatch), as it rejects a fraction.
getRecentExpenses(limit, rows) ==
  IF limit = NaN \/ limit.value % 1000 # 0
    THEN { [threw |-> "Failed to retrieve expenses"] }
    ELSE { [returned |-> FirstRows(order, limit.value \div 1000)] :
             order \in ExpensesInOrder(rows) }

\* res.json({ success: true, data: expenses }) / res.status(500).json(...)
GetResponse(outcome) ==
  IF "returned" \in DOMAIN outcome
    THEN [status |-> 200, success |-> TRUE, data |-> outcome.returned]
    ELSE [status |-> 500, success |-> FALSE, error |-> "Failed to fetch expenses"]

LimitRejected ==
  [status |-> 400, success |-> FALSE, error |-> "Limit must be between 1 and 100"]

\* The values of the limit parameter of GET /api/expenses.
LimitParams ==
  { Undefined, Str(<<"0">>), Str(<<"1">>), Str(<<"2">>), Str(<<"1", "0", "0">>),
    Str(<<"1", "0", "1">>), Str(<<"-", "1">>), Str(<<"a", "b", "c">>),
    Str(<<"2", "a", "b", "c">>), Str(<<"1", ".", "5">>) }

\* GET /api/expenses; request.queried holds the limits getRecentExpenses was
\* called with.
GetExpenses ==
  /\ \E limitParam \in LimitParams :
       IF LimitOutOfRange(LimitOf(limitParam))
         THEN /\ request' = [op |-> "GET /api/expenses", limit |-> limitParam,
                             queried |-> <<>>]
              /\ response' = LimitRejected
              /\ UNCHANGED <<db, categories>>
         ELSE /\ request' = [op |-> "GET /api/expenses", limit |-> limitParam,
                             queried |-> <<LimitOf(limitParam)>>]
              /\ \E outcome \in getRecentExpenses(LimitOf(limitParam), expenses) :
                   response' = GetResponse(outcome)
              /\ EnsureInitialized
  /\ UNCHANGED <<wages, expenses, timestamp, pc>>
  /\ UNCHANGED <<calendarVars, calcVars, insightVars, appVars>>

InitExpenseRoutes == InitCalc({0}, {"month"})

NextExpenseRoutes == PostExpenses \/ GetExpenses \/ SecondPasses

SpecExpenseRoutes == InitExpenseRoutes /\ [][NextExpenseRoutes]_vars

(***************************************************************************)
(* Properties of the expense routes (SpecExpenseRoutes).                   *)
(***************************************************************************)
\* The constraints on the body of POST /api/expenses: an amount in
\* [0.01, 100000], a description of at most 200 characters that is not empty
\* after trimming, one of the five categories and a date of the form
\* YYYY-MM-DD.
ExpenseBodyMeetsConstraints(body) ==
  /\ body.amount.type = "number"
  /\ body.amount.value >= 10
  /\ body.amount.value <= 100000 * 1000
  /\ body.description.type = "string"
  /\ ~AllBlank(body.description.value)
  /\ Length(body.description.value) <= 200
  /\ body.category.type = "string"
  /\ \E name \in CategoryEnum : body.category.value = <<name>>
  /\ body.date.type = "string"
  /\ MatchesDateRegex(body.date.value)

\* C22: POST /api/expenses answers 400 and persists nothing for every body
\* that violates a constraint, and 201 with the stored row for every body
\* that meets them; a body that fails validation is never answered 500.
\* (A step that leaves the clock of the database alone and ends with a POST
\* as the last request is the handling of that POST.)
PostExpensesAnswers400Or201 ==
  [][ (request' # None /\ request'.op = "POST /api/expenses" /\ timestamp' = timestamp) =>
        IF ExpenseBodyMeetsConstraints(request'.arg)
          THEN /\ response'.status = 201
               /\ expenses' = Append(expenses, response'.data)
               /\ response'.data.amount = request'.arg.amount.value
               /\ response'.data.description = Trim(request'.arg.description.value)
               /\ response'.data.category = request'.arg.category.value
               /\ response'.data.date = request'.arg.date.value
          ELSE /\ response'.status = 400
               /\ expenses' = expenses ]_vars

\* The same without the status of the rejection: a body that violates a
\* constraint persists nothing, and a body that meets them is answered 201
\* with the stored row.
PostExpensesStoresOnlyValidBodies ==
  [][ (request' # None /\ request'.op = "POST /api/expenses" /\ timestamp' = timestamp) =>
        IF ExpenseBodyMeetsConstraints(request'.arg)
          THEN /\ response'.status = 201
               /\ expenses' = Append(expenses, response'.data)
          ELSE /\ response'.status \in {400, 500}
               /\ expenses' = expenses ]_vars

\* The limit the claim admits for a parameter: absent, or the numeral of an
\* integer from 1 to 100.
IsNumeral(chars) == chars # <<>> /\ \A i \in 1 .. Len(chars) : IsDigit(chars[i])

AdmittedLimit(limitParam) ==
  IF limitParam = Undefined THEN 30
  ELSE IF IsNumeral(limitParam.value)
            /\ DecimalValue(limitParam.value, 0) >= 1
            /\ DecimalValue(limitParam.value, 0) <= 100
    THEN DecimalValue(limitParam.value, 0)
  ELSE 0

LaterExpense(a, b) == TextLess(b.date, a.date) \/ (a.date = b.date /\ a.id > b.id)

\* C23: GET /api/expenses calls getRecentExpenses only with an integer limit
\* from 1 to 100 (30 when the parameter is absent) and answers every other
\* value with 400 without a database query; the response holds at most limit
\* expenses ordered by date descending, then creation time descending.
GetExpensesChecksLimit ==
  Asked("GET /api/expenses") =>
    IF AdmittedLimit(request.limit) # 0
      THEN /\ request.queried = <<Num(AdmittedLimit(request.limit) * 1000)>>
           /\ response.status = 200
           /\ Len(response.data) <= AdmittedLimit(request.limit)
           /\ \A i, j \in 1 .. Len(response.data) :
                i < j => LaterExpense(response.data[i], response.data[j])
      ELSE /\ response.status = 400
           /\ request.queried = <<>>

\* The part of it that the route does keep: a numeral is answered as the
\* claim says, the order among expenses created in the same second set aside.
GetExpensesChecksNumerals ==
  (Asked("GET /api/expenses") /\ (request.limit = Undefined \/ IsNumeral(request.limit.value))) =>
    IF AdmittedLimit(request.limit) # 0
      THEN /\ request.queried = <<Num(AdmittedLimit(request.limit) * 1000)>>
           /\ response.status = 200
           /\ Len(response.data) <= AdmittedLimit(request.limit)
           /\ \A i, j \in 1 .. Len(response.data) :
                i < j => ExpenseMayPrecede(response.data[i], response.data[j])
      ELSE /\ response.status = 400
           /\ request.queried = <<>>

(***************************************************************************)
(* The module-level handle of database.ts under callers whose calls        *)
(* overlap.  A call runs from one await to the next in one step; what it   *)
(* awaits (open, exec, a query, close) resolves or rejects in a later      *)
(* step, and steps of other calls can come in between.  db.exec and the    *)
(* queries read the module variable db when they are issued.               *)
(***************************************************************************)
\* The handle the n-th open() resolved to.
Handle(number) == [connection |-> "financial-tool.db", number |-> number]

\* The functions of database.ts that read, and initializeDatabase itself.
Operations ==
  { "initializeDatabase", "getCurrentWage", "getWageHistory", "getRecentExpenses",
    "getCategories" }

\* catch (error) { throw new Error(...) } of each function.
FailureMessage ==
  ("initializeDatabase" :> "Database setup failed")
    @@ ("getCurrentWage" :> "Failed to retrieve wage information")
    @@ ("getWageHistory" :> "Failed to retrieve wage history")
    @@ ("getRecentExpenses" :> "Failed to retrieve expenses")
    @@ ("getCategories" :> "Failed to retrieve categories")

Threw(op) == [pc |-> "threw", op |-> op, message |-> FailureMessage[op]]
\* A call that returned value; handle is the connection its last await ran
\* on, None when it awaited nothing.
Returned(op, value, handle) ==
  [pc |-> "returned", op |-> op, value |-> value, handle |-> handle]

InFlight(call) == call.pc \in {"opening", "exec", "query", "closing"}

IsOpen(handle) == connections[handle.number].open

\* The order of the category names under SQLite's BINARY collation.
CategoryNameRank ==
  ("Entertainment" :> 1) @@ ("Food" :> 2) @@ ("Housing" :> 3)
    @@ ("Transportation" :> 4) @@ ("Utilities" :> 5)

\* SELECT id, name, color FROM categories ORDER BY name
CategoriesInOrder(rows) ==
  { [i \in 1 .. Len(rows) |-> rows[f[i]]] : f \in
      { g \in Arrangements(Len(rows)) :
          \A i, j \in 1 .. Len(rows) :
            i < j => CategoryNameRank[rows[g[i]].name] <= CategoryNameRank[rows[g[j]].name] } }

\* What the query of a function can resolve to on the tables.
QueryResults(op) ==
  CASE op = "getCurrentWage" -> FirstWages(wages)
    [] op = "getWageHistory" -> WagesInOrder(wages)
    [] op = "getRecentExpenses" -> ExpensesInOrder(expenses)
    [] op = "getCategories" -> CategoriesInOrder(categories)

\* db?.get(...) || null, db?.all(...) || [] when db is null.
ResultWithoutHandle(op) == IF op = "getCurrentWage" THEN Null ELSE <<>>

\* The open() invocations so far: those that settled and those awaited.
OpensStarted == Len(connections) + Cardinality({ c \in Callers : calls[c].pc = "opening" })

\* After `if (!db) await initializeDatabase()`: the query is issued on db,
\* and initializeDatabase itself returns db.
Proceed(op, handle) ==
  IF op = "initializeDatabase" THEN Returned(op, handle, handle)
  ELSE IF handle = None THEN Returned(op, ResultWithoutHandle(op), None)
  ELSE [pc |-> "query", op |-> op, handle |-> handle]

\* A call starts.  With a handle, initializeDatabase returns it (line 38)
\* and the other functions issue their query on it; without one, open() is
\* invoked (lines 42-45) and awaited.
StartCall(c) ==
  /\ ~InFlight(calls[c])
  /\ \E op \in Operations :
       IF db # None
         THEN /\ calls' = [calls EXCEPT ![c] = Proceed(op, db)]
              /\ opens' = opens
         ELSE /\ OpensStarted < MaxOpens
              /\ calls' = [calls EXCEPT ![c] = [pc |-> "opening", op |-> op]]
              /\ opens' = opens + 1
  /\ UNCHANGED <<db, connections, schema, categories>>
  /\ UNCHANGED <<wages, expenses, timestamp, request, response, pc>>
  /\ UNCHANGED <<calendarVars, calcVars, insightVars, managerVars, formVars>>

\* db = await open(...): the handle is assigned, and db.exec is issued on it.
OpenResolves(c) ==
  /\ calls[c].pc = "opening"
  /\ connections' = Append(connections, [open |-> TRUE])
  /\ db' = Handle(Len(connections'))
  /\ calls' = [calls EXCEPT ![c] = [pc |-> "exec", op |-> calls[c].op, handle |-> db']]
  /\ UNCHANGED <<opens, schema, categories>>
  /\ UNCHANGED <<wages, expenses, timestamp, request, response, pc>>
  /\ UNCHANGED <<calendarVars, calcVars, insightVars, managerVars, formVars>>

\* open() rejects: initializeDatabase's catch rethrows (lines 92-95) and the
\* calling function's catch does.
OpenRejects(c) ==
  /\ calls[c].pc = "opening"
  /\ connections' = Append(connections, [open |-> FALSE])
  /\ calls' = [calls EXCEPT ![c] = Threw(calls[c].op)]
  /\ UNCHANGED <<db, opens, schema, categories>>
  /\ UNCHANGED <<wages, expenses, timestamp, request, response, pc>>
  /\ UNCHANGED <<calendarVars, calcVars, insightVars, managerVars, formVars>>

\* await db.exec(...) resolves: the tables and indexes exist, the default
\* categories are seeded, and the call goes on (line 90).
ExecResolves(c) ==
  /\ calls[c].pc = "exec"
  /\ IsOpen(calls[c].handle)
  /\ schema' = TRUE
  /\ categories' = InsertOrIgnore(categories, DefaultCategories)
  /\ db' = db
  /\ calls' = [calls EXCEPT ![c] = Proceed(calls[c].op, db)]
  /\ UNCHANGED <<connections, opens>>
  /\ UNCHANGED <<wages, expenses, timestamp, request, response, pc>>
  /\ UNCHANGED <<calendarVars, calcVars, insightVars, managerVars, formVars>>

\* await db.exec(...) rejects (the file is not a database, the disk is full,
\* the handle was closed): the catch rethrows and leaves db as it is.
ExecRejects(c) ==
  /\ calls[c].pc = "exec"
  /\ calls' = [calls EXCEPT ![c] = Threw(calls[c].op)]
  /\ UNCHANGED <<db, connections, opens, schema, categories>>
  /\ UNCHANGED <<wages, expenses, timestamp, request, response, pc>>
  /\ UNCHANGED <<calendarVars, calcVars, insightVars, managerVars, formVars>>

\* The query of a function settles: it rejects on a closed handle and on a
\* file without the tables, and resolves to the rows otherwise.
QuerySettles(c) ==
  /\ calls[c].pc = "query"
  /\ IF IsOpen(calls[c].handle) /\ schema
       THEN \E rows \in QueryResults(calls[c].op) :
              calls' = [calls EXCEPT ![c] = Returned(calls[c].op, rows, calls[c].handle)]
       ELSE calls' = [calls EXCEPT ![c] = Threw(calls[c].op)]
  /\ UNCHANGED <<db, connections, opens, schema, categories>>
  /\ UNCHANGED <<wages, expenses, timestamp, request, response, pc>>
  /\ UNCHANGED <<calendarVars, calcVars, insightVars, managerVars, formVars>>

\* closeDatabase(): if (db) { await db.close() ... }
StartClose(c) ==
  /\ ~InFlight(calls[c])
  /\ IF db # None
       THEN /\ calls' = [calls EXCEPT ![c] = [pc |-> "closing", op |-> "closeDatabase",
                                              handle |-> db]]
            /\ opens' = 0
       ELSE /\ calls' = [calls EXCEPT ![c] = Returned("closeDatabase", Undefined, None)]
            /\ opens' = opens
  /\ UNCHANGED <<db, connections, schema, categories>>
  /\ UNCHANGED <<wages, expenses, timestamp, request, response, pc>>
  /\ UNCHANGED <<calendarVars, calcVars, insightVars, managerVars, formVars>>

\* ... db = null }
CloseResolves(c) ==
  /\ calls[c].pc = "closing"
  /\ connections' = [connections EXCEPT ![calls[c].handle.number].open = FALSE]
  /\ db' = None
  /\ calls' = [calls EXCEPT ![c] = Returned("closeDatabase", Undefined, calls[c].handle)]
  /\ UNCHANGED <<opens, schema, categories>>
  /\ UNCHANGED <<wages, expenses, timestamp, request, response, pc>>
  /\ UNCHANGED <<calendarVars, calcVars, insightVars, managerVars, formVars>>

InitHandle == InitCalc({0}, {"month"})

NextHandle ==
  \E c \in Callers :
    \/ StartCall(c)
    \/ OpenResolves(c)
    \/ OpenRejects(c)
    \/ ExecResolves(c)
    \/ ExecRejects(c)
    \/ QuerySettles(c)
    \/ StartClose(c)
    \/ CloseResolves(c)

SpecHandle == InitHandle /\ [][NextHandle]_vars

(***************************************************************************)
(* Properties of the handle (SpecHandle).                                  *)
(***************************************************************************)
OpenConnections == { n \in 1 .. Len(connections) : connections[n].open }

\* C21: the handle is a single connection: whatever the interleaving of the
\* calls, open() is invoked at most once while no closeDatabase intervened,
\* at most one connection is open, and the callers that are operating on a
\* connection operate on the same one.
SingleConnection ==
  /\ opens <= 1
  /\ Cardinality(OpenConnections) <= 1
  /\ \A c, d \in Callers :
       (calls[c].pc \in {"exec", "query"} /\ calls[d].pc \in {"exec", "query"})
         => calls[c].handle = calls[d].handle

\* Two connections are open and each caller works on its own.
CallersOnDifferentConnections ==
  /\ Cardinality(OpenConnections) = 2
  /\ \E c, d \in Callers :
       /\ calls[c].pc = "query"
       /\ calls[d].pc = "query"
       /\ calls[c].handle # calls[d].handle

\* C26: when initializeDatabase throws, the handle is left unset, so that
\* the next operation initializes again, and no operation runs its query on
\* a handle whose tables were not created.
FailedInitializationLeavesNoHandle ==
  [][ /\ \A c \in Callers :
           (calls[c].pc \in {"opening", "exec"} /\ calls'[c].pc = "threw") => db' = None
      /\ \A c \in Callers : calls'[c].pc = "query" => schema' ]_vars

\* A caller's query was rejected for want of the tables: db.exec had
\* rejected for the caller before it, the handle stayed set, and no call
\* initialized again.
QueryRejectedForWantOfTables ==
  /\ Len(connections) = 1
  /\ ~schema
  /\ db # None
  /\ \E c, d \in Callers :
       /\ calls[c] = Threw("initializeDatabase")
       /\ calls[d] = Threw("getCategories")

NoDuplicateNames(rows) ==
  \A i, j \in 1 .. Len(rows) : rows[i].name = rows[j].name => i = j

NamesOf(rows) == { rows[i].name : i \in 1 .. Len(rows) }

\* C25: category names are unique and seeding is idempotent: the categories
\* table never holds a name twice, after every initializeDatabase that ran
\* to its end (after a closeDatabase too) it holds exactly one row for each
\* of the five default names, and a getCategories whose query ran returns
\* the rows of the table sorted by name.
CategoriesSeededOnce ==
  /\ NoDuplicateNames(categories)
  /\ schema => /\ Len(categories) = 5
               /\ NamesOf(categories) = CategoryEnum
  /\ \A c \in Callers :
       (calls[c].pc = "returned" /\ calls[c].op = "getCategories" /\ calls[c].handle # None) =>
         /\ Len(calls[c].value) = 5
         /\ \A i \in 1 .. 5 : \E j \in 1 .. 5 : calls[c].value[i] = categories[j]
         /\ \A i \in 1 .. 4 :
              CategoryNameRank[calls[c].value[i].name]
                < CategoryNameRank[calls[c].value[i + 1].name]

\* initializeDatabase ran to its end on a second connection after the first
\* was closed, and getCategories has returned the five rows since.
SeededAgainAfterClose ==
  /\ Len(connections) = 2
  /\ ~connections[1].open
  /\ connections[2].open
  /\ Len(categories) = 5
  /\ \E c, d \in Callers :
       /\ calls[c] = Returned("initializeDatabase", Handle(2), Handle(2))
       /\ calls[d].pc = "returned"
       /\ calls[d].op = "getCategories"
       /\ Len(calls[d].value) = 5

(***************************************************************************)
(* DatabaseManager (backend/src/utils/database.ts).  manager.db is the     *)
(* private field db, manager.initialize and manager.close are the          *)
(* positions of a running initialize() and close(), manager.opened counts  *)
(* the connections opened, and manager.lifecycle records the last thing    *)
(* that happened to the manager: "new", "initializing", "initialized",     *)
(* "failed" (initialize() threw), "closing", "closed".                     *)
(***************************************************************************)
ManagerHandle(number) == [connection |-> "financial_tool.db", number |-> number]

NotInitialized == "Database not initialized. Call initialize() first."

\* getConnection(): if (!this.db) throw ...; return this.db
getConnection(connection) ==
  IF connection = None
    THEN [threw |-> [prefix |-> "", cause |-> NotInitialized]]
    ELSE [returned |-> connection]

\* The method of the connection that query, queryOne and execute call.
ConnectionMethod == ("query" :> "all") @@ ("queryOne" :> "get") @@ ("execute" :> "run")

\* catch: throw new Error(`Database query failed: ${error}`).  An Error is
\* the record of what its message starts with and of the cause it reports.
FailurePrefix ==
  ("query" :> "Database query failed: ") @@ ("queryOne" :> "Database query failed: ")
    @@ ("execute" :> "Database execute failed: ")

\* What query, queryOne and execute can do given what getConnection did:
\* rethrow its error, or call the method on the connection and return what it
\* resolves to or rethrow what it rejects with.
ManagerCallOutcomes(op, got) ==
  IF "threw" \in DOMAIN got
    THEN { [threw |-> [prefix |-> FailurePrefix[op], cause |-> got.threw.cause],
            operations |-> <<>>] }
    ELSE { [returned |-> "result",
            operations |-> <<[method |-> ConnectionMethod[op], connection |-> got.returned]>>],
           [threw |-> [prefix |-> FailurePrefix[op], cause |-> "SQLITE_ERROR"],
            operations |-> <<[method |-> ConnectionMethod[op], connection |-> got.returned]>>] }

\* initialize() is called: the directory is made when missing (which can
\* throw), and open() is invoked and awaited.
ManagerInitialize ==
  /\ manager.initialize \in {"idle", "returned", "threw"}
  /\ manager.opened < MaxOpens
  /\ \E made \in BOOLEAN :
       manager' = IF made
                    THEN [manager EXCEPT !.initialize = "opening", !.lifecycle = "initializing"]
                    ELSE [manager EXCEPT !.initialize = "threw", !.lifecycle = "failed"]
  /\ UNCHANGED <<storeVars, pc, calendarVars, calcVars, insightVars, handleVars, formVars>>

\* this.db = await open(...): resolved, the field is assigned and the PRAGMA
\* is issued; rejected, the catch throws 'Database initialization failed'.
ManagerOpenSettles ==
  /\ manager.initialize = "opening"
  /\ \E resolved \in BOOLEAN :
       manager' = IF resolved
                    THEN [manager EXCEPT !.db = ManagerHandle(manager.opened + 1),
                                         !.opened = manager.opened + 1,
                                         !.initialize = "pragma"]
                    ELSE [manager EXCEPT !.opened = manager.opened + 1,
                                         !.initialize = "threw", !.lifecycle = "failed"]
  /\ UNCHANGED <<storeVars, pc, calendarVars, calcVars, insightVars, handleVars, formVars>>

\* await this.db.exec('PRAGMA foreign_keys = ON;') and the start of
\* createTables: the schema file is read (which can throw) and its exec is
\* issued.
ManagerPragmaSettles ==
  /\ manager.initialize = "pragma"
  /\ \E resolved \in BOOLEAN :
       manager' = IF resolved
                    THEN [manager EXCEPT !.initialize = "tables"]
                    ELSE [manager EXCEPT !.initialize = "threw", !.lifecycle = "failed"]
  /\ UNCHANGED <<storeVars, pc, calendarVars, calcVars, insightVars, handleVars, formVars>>

\* await this.db!.exec(schema): resolved, initialize() returns; rejected,
\* createTables throws and the catch of initialize() throws.
ManagerTablesSettle ==
  /\ manager.initialize = "tables"
  /\ \E resolved \in BOOLEAN :
       manager' = IF resolved
                    THEN [manager EXCEPT !.initialize = "returned", !.lifecycle = "initialized"]
                    ELSE [manager EXCEPT !.initialize = "threw", !.lifecycle = "failed"]
  /\ UNCHANGED <<storeVars, pc, calendarVars, calcVars, insightVars, handleVars, formVars>>

\* getConnection()
GetConnection ==
  /\ request' = [op |-> "getConnection"]
  /\ response' = getConnection(manager.db)
  /\ UNCHANGED <<db, wages, expenses, categories, timestamp, pc>>
  /\ UNCHANGED <<calendarVars, calcVars, insightVars, appVars>>

\* query(sql, params), queryOne(sql, params), execute(sql, params)
ManagerCall ==
  /\ \E op \in DOMAIN ConnectionMethod :
       /\ request' = [op |-> op]
       /\ response' \in ManagerCallOutcomes(op, getConnection(manager.db))
  /\ UNCHANGED <<db, wages, expenses, categories, timestamp, pc>>
  /\ UNCHANGED <<calendarVars, calcVars, insightVars, appVars>>

\* close(): if (this.db) { await this.db.close() ...
ManagerClose ==
  /\ manager.close = "idle"
  /\ manager.db # None
  /\ manager' = [manager EXCEPT !.close = "closing", !.lifecycle = "closing"]
  /\ UNCHANGED <<storeVars, pc, calendarVars, calcVars, insightVars, handleVars, formVars>>

\* ... this.db = null }
ManagerCloseResolves ==
  /\ manager.close = "closing"
  /\ manager' = [manager EXCEPT !.db = None, !.close = "idle", !.lifecycle = "closed"]
  /\ UNCHANGED <<storeVars, pc, calendarVars, calcVars, insightVars, handleVars, formVars>>

InitManager == InitCalc({0}, {"month"})

NextManager ==
  \/ ManagerInitialize
  \/ ManagerOpenSettles
  \/ ManagerPragmaSettles
  \/ ManagerTablesSettle
  \/ GetConnection
  \/ ManagerCall
  \/ ManagerClose
  \/ ManagerCloseResolves

SpecManager == InitManager /\ [][NextManager]_vars

(***************************************************************************)
(* Properties of the DatabaseManager (SpecManager).                        *)
(***************************************************************************)
\* The error a call threw is, or wraps, 'Database not initialized. ...'.
ThrewNotInitialized(outcome) ==
  /\ "threw" \in DOMAIN outcome
  /\ outcome.threw.cause = NotInitialized
  /\ "operations" \in DOMAIN outcome => outcome.operations = <<>>

\* C24: getConnection, and with it query, queryOne and execute, gets a
\* connection only when the last thing that happened to the manager is an
\* initialize() that completed; before the first initialize(), after an
\* initialize() that threw and after close() it throws 'Database not
\* initialized. Call initialize() first.' and performs no database
\* operation.  (A step that leaves the manager alone is a call of one of the
\* four methods.)
ConnectionOnlyWhileInitialized ==
  [][ (manager' = manager /\ request' # None) =>
        IF manager.lifecycle = "initialized"
          THEN ~ThrewNotInitialized(response')
          ELSE ThrewNotInitialized(response') ]_vars

\* initialize() threw after the connection was opened, and query then ran
\* on the connection.
QueryRanAfterFailedInitialize ==
  /\ manager.lifecycle = "failed"
  /\ manager.initialize = "threw"
  /\ manager.close = "idle"
  /\ Asked("query")
  /\ response.operations = <<[method |-> "all", connection |-> manager.db]>>

(***************************************************************************)
(* The wage form and the expense form (frontend/src/components) with the   *)
(* API behind them.  forms[form] is the React state of the component;      *)
(* network holds the fetch exchanges in flight, each "sent" until the      *)
(* server or a gateway answers it and "answered" until the form reads the  *)
(* response; an exchange can fail at either stage, and fetch then rejects. *)
(***************************************************************************)
\* The rows the two forms save between them.
MaxFormRows == 2

SettledStillLoading(state, message) == [state EXCEPT !.message = message]

\* setMessage(message) and, in finally, setIsLoading(false)
Settled(state, message) == [state EXCEPT !.message = message, !.isLoading = FALSE]

\* setIsLoading(true); setMessage(null)
Submitting(state) == [state EXCEPT !.isLoading = TRUE, !.message = Null]

SuccessMessage(text) == [type |-> "success", text |-> text]

\* result.error || fallback
ErrorMessage(text, fallback) ==
  [type |-> "error", text |-> IF text = "" THEN fallback ELSE text]

NetworkError == [type |-> "error", text |-> "Network error. Please try again."]

\* wageEntrySchema of WageEntry.tsx, which handleSubmit applies before
\* onSubmit runs.
WageFormAccepts(data) ==
  /\ data.monthlyAmount.type = "number"
  /\ data.monthlyAmount.value >= 10
  /\ data.monthlyAmount.value <= 1000000 * 1000
  /\ data.effectiveDate.type = "string"
  /\ Length(data.effectiveDate.value) >= 1
  /\ data.description.type \in {"string", "undefined"}

\* expenseEntrySchema of ExpenseEntry.tsx.
ExpenseFormAccepts(data) ==
  /\ data.amount.type = "number"
  /\ data.amount.value >= 10
  /\ data.amount.value <= 100000 * 1000
  /\ data.description.type = "string"
  /\ Length(data.description.value) >= 1
  /\ Length(data.description.value) <= 200
  /\ data.category.type = "string"
  /\ \E name \in CategoryEnum : data.category.value = <<name>>
  /\ data.date.type = "string"
  /\ Length(data.date.value) >= 1

\* What the user has entered when the form is submitted.
WageFormInputs ==
  { [monthlyAmount |-> a, effectiveDate |-> Str(<<d>>), description |-> Str(<<>>)] :
      a \in { Num(0), Num(2500 * 1000) }, d \in { "2024-01-01", "2024-02-01" } }

ExpenseFormInputs ==
  { LunchOnFeb01, [LunchOnFeb01 EXCEPT !.description = Str(<<" ", " ">>)] }

Exchange(form, kind, body) == [form |-> form, kind |-> kind, stage |-> "sent", body |-> body]

Answered(exchange, json) ==
  [exchange EXCEPT !.stage = "answered"] @@ [response |-> [parsable |-> TRUE, json |-> json]]

\* A response whose body is not JSON, as a gateway in front of the API sends.
Unparsable(exchange) ==
  [exchange EXCEPT !.stage = "answered"] @@ [response |-> [parsable |-> FALSE]]

Without(exchanges, i) == SubSeq(exchanges, 1, i - 1) \o SubSeq(exchanges, i + 1, Len(exchanges))

SubmitsInFlight(form) ==
  Cardinality({ i \in 1 .. Len(network) :
                  network[i].form = form /\ network[i].kind = "submit" })

\* App.tsx renders one form at a time, the one of the active tab: the user
\* works in a form while nothing of the other form is in flight.
ActiveTab(form) == \A i \in 1 .. Len(network) : network[i].form = form

\* The button: disabled={!isValid || isLoading}; onSubmit up to the fetch.
SubmitWage ==
  /\ ActiveTab("wage")
  /\ ~forms["wage"].isLoading
  /\ Len(wages) + Len(expenses) < MaxFormRows
  /\ \E data \in WageFormInputs :
       /\ WageFormAccepts(data)
       /\ network' = Append(network, Exchange("wage", "submit", data))
  /\ forms' = [forms EXCEPT !["wage"] = Submitting(forms["wage"])]
  /\ UNCHANGED <<storeVars, pc, calendarVars, calcVars, insightVars, handleVars, managerVars>>

SubmitExpense ==
  /\ ActiveTab("expense")
  /\ ~forms["expense"].isLoading
  /\ Len(wages) + Len(expenses) < MaxFormRows
  /\ \E data \in ExpenseFormInputs :
       /\ ExpenseFormAccepts(data)
       /\ network' = Append(network, Exchange("expense", "submit", ExpenseSchemaData(data)))
  /\ forms' = [forms EXCEPT !["expense"] = Submitting(forms["expense"])]
  /\ UNCHANGED <<storeVars, pc, calendarVars, calcVars, insightVars, handleVars, managerVars>>

\* fetchCurrentWage up to the fetch (useEffect on mount).
FetchCurrentWage ==
  /\ ActiveTab("wage")
  /\ \A i \in 1 .. Len(network) : network[i].kind # "current"
  /\ network' = Append(network, Exchange("wage", "current", Undefined))
  /\ UNCHANGED <<forms, storeVars, pc, calendarVars, calcVars, insightVars, handleVars,
                 managerVars>>

\* POST /api/wage
ServerPostsWage(i) ==
  /\ network[i].form = "wage"
  /\ network[i].kind = "submit"
  /\ network[i].stage = "sent"
  /\ IF WageSchemaAccepts(network[i].body)
       THEN /\ network' = [network EXCEPT ![i] =
                 Answered(network[i], PostResponse(addWageEntry(network[i].body, wages, timestamp)))]
            /\ wages' = RowsAfter(addWageEntry(network[i].body, wages, timestamp), wages)
            /\ EnsureInitialized
       ELSE /\ network' = [network EXCEPT ![i] = Answered(network[i], BadRequest)]
            /\ UNCHANGED <<wages, db, categories>>
  /\ UNCHANGED <<forms, expenses, timestamp, request, response, pc>>
  /\ UNCHANGED <<calendarVars, calcVars, insightVars, handleVars, managerVars>>

\* POST /api/expenses
ServerPostsExpense(i) ==
  /\ network[i].form = "expense"
  /\ network[i].kind = "submit"
  /\ network[i].stage = "sent"
  /\ IF ExpenseSchemaAccepts(network[i].body)
       THEN /\ network' = [network EXCEPT ![i] =
                 Answered(network[i],
                          PostResponse(addExpenseEntry(ExpenseSchemaData(network[i].body),
                                                       expenses, timestamp)))]
            /\ expenses' = RowsAfter(addExpenseEntry(ExpenseSchemaData(network[i].body),
                                                     expenses, timestamp), expenses)
            /\ EnsureInitialized
       ELSE /\ network' = [network EXCEPT ![i] = Answered(network[i], BadRequest)]
            /\ UNCHANGED <<expenses, db, categories>>
  /\ UNCHANGED <<forms, wages, timestamp, request, response, pc>>
  /\ UNCHANGED <<calendarVars, calcVars, insightVars, handleVars, managerVars>>

\* GET /api/wage/current and GET /api/expenses?limit=5
ServerGets(i) ==
  /\ network[i].kind \in {"current", "refresh"}
  /\ network[i].stage = "sent"
  /\ IF network[i].kind = "current"
       THEN \E wage \in FirstWages(wages) :
              network' = [network EXCEPT ![i] =
                Answered(network[i], [status |-> 200, success |-> TRUE, data |-> wage])]
       ELSE \E outcome \in getRecentExpenses(Num(5 * 1000), expenses) :
              network' = [network EXCEPT ![i] = Answered(network[i], GetResponse(outcome))]
  /\ EnsureInitialized
  /\ UNCHANGED <<forms, wages, expenses, timestamp, request, response, pc>>
  /\ UNCHANGED <<calendarVars, calcVars, insightVars, handleVars, managerVars>>

\* A gateway answers in place of the API, with a body that is not JSON.
GatewayAnswers(i) ==
  /\ network[i].stage = "sent"
  /\ network' = [network EXCEPT ![i] = Unparsable(network[i])]
  /\ UNCHANGED <<forms, storeVars, pc, calendarVars, calcVars, insightVars, handleVars,
                 managerVars>>

\* onSubmit of WageEntry.tsx from `await answer.json()` on.
WageSubmitSettled(state, answer) ==
  IF ~answer.parsable THEN Settled(state, NetworkError)
  ELSE IF answer.json.success
    THEN Settled([state EXCEPT !.currentWage = answer.json.data],
                 SuccessMessage("Wage saved successfully!"))
  ELSE Settled(state, ErrorMessage(answer.json.error, "Failed to save wage"))

\* onSubmit of ExpenseEntry.tsx from `await answer.json()` on.
ExpenseSubmitSettled(state, answer) ==
  IF ~answer.parsable THEN Settled(state, NetworkError)
  ELSE IF answer.json.success
    THEN Settled(state, SuccessMessage("Expense added successfully!"))
  ELSE Settled(state, ErrorMessage(answer.json.error, "Failed to add expense"))

\* fetchCurrentWage and fetchRecentExpenses from `await answer.json()` on.
FetchSettled(state, kind, answer) ==
  IF ~answer.parsable \/ ~answer.json.success THEN state
  ELSE IF kind = "refresh" THEN [state EXCEPT !.recentExpenses = answer.json.data]
  ELSE IF answer.json.data = Null THEN state
  ELSE [state EXCEPT !.currentWage = answer.json.data]

\* The exchanges in flight once the form has read the response of the i-th:
\* a saved expense is followed by fetchRecentExpenses().
NetworkAfter(i) ==
  IF /\ network[i].form = "expense"
     /\ network[i].kind = "submit"
     /\ network[i].response.parsable
     /\ network[i].response.json.success
    THEN Append(Without(network, i), Exchange("expense", "refresh", Undefined))
    ELSE Without(network, i)

\* The form reads the response of a submit.
SubmitAnswered(i) ==
  /\ network[i].kind = "submit"
  /\ network[i].stage = "answered"
  /\ forms' = [forms EXCEPT ![network[i].form] =
       IF network[i].form = "wage"
         THEN WageSubmitSettled(forms["wage"], network[i].response)
         ELSE ExpenseSubmitSettled(forms["expense"], network[i].response)]
  /\ network' = NetworkAfter(i)
  /\ UNCHANGED <<storeVars, pc, calendarVars, calcVars, insightVars, handleVars, managerVars>>

\* The fetch of a submit rejects: catch, finally.
SubmitFails(i) ==
  /\ network[i].kind = "submit"
  /\ forms' = [forms EXCEPT ![network[i].form] = Settled(forms[network[i].form], NetworkError)]
  /\ network' = Without(network, i)
  /\ UNCHANGED <<storeVars, pc, calendarVars, calcVars, insightVars, handleVars, managerVars>>

\* fetchCurrentWage or fetchRecentExpenses reads its response, or its fetch
\* rejects (console.error only).
FetchAnswered(i) ==
  /\ network[i].kind \in {"current", "refresh"}
  /\ network[i].stage = "answered"
  /\ forms' = [forms EXCEPT ![network[i].form] =
       FetchSettled(forms[network[i].form], network[i].kind, network[i].response)]
  /\ network' = Without(network, i)
  /\ UNCHANGED <<storeVars, pc, calendarVars, calcVars, insightVars, handleVars, managerVars>>

FetchFails(i) ==
  /\ network[i].kind \in {"current", "refresh"}
  /\ network' = Without(network, i)
  /\ UNCHANGED <<forms, storeVars, pc, calendarVars, calcVars, insightVars, handleVars,
                 managerVars>>

\* The fetch of the form's submit settles, one way or the other.
SubmitSettles(form) ==
  \E i \in 1 .. Len(network) :
    /\ network[i].form = form
    /\ SubmitAnswered(i) \/ SubmitFails(i)

InitForms == InitCalc({0}, {"month"})

NextForms ==
  \/ SubmitWage
  \/ SubmitExpense
  \/ FetchCurrentWage
  \/ \E i \in 1 .. Len(network) : ServerPostsWage(i)
  \/ \E i \in 1 .. Len(network) : ServerPostsExpense(i)
  \/ \E i \in 1 .. Len(network) : ServerGets(i)
  \/ \E i \in 1 .. Len(network) : GatewayAnswers(i)
  \/ \E i \in 1 .. Len(network) : SubmitAnswered(i)
  \/ \E i \in 1 .. Len(network) : SubmitFails(i)
  \/ \E i \in 1 .. Len(network) : FetchAnswered(i)
  \/ \E i \in 1 .. Len(network) : FetchFails(i)

\* A fetch settles: its promise resolves or rejects in the end.
SpecForms ==
  /\ InitForms
  /\ [][NextForms]_vars
  /\ \A form \in Forms : WF_vars(SubmitSettles(form))

(***************************************************************************)
(* Properties of the forms (SpecForms).                                    *)
(***************************************************************************)
\* C28: after every successful submit of the wage form the current wage the
\* form holds is what GET /api/wage/current would return, whatever the
\* effective dates submitted.  (The step that ends isLoading with the
\* success message is the end of a successful submit.)
FormShowsCurrentWage ==
  [][ (/\ forms["wage"].isLoading
       /\ ~forms'["wage"].isLoading
       /\ forms'["wage"].message.type = "success")
        => forms'["wage"].currentWage \in FirstWages(wages') ]_vars

\* The form shows a wage effective 2024-01-01 after a successful submit
\* while the latest wage of the database is effective 2024-02-01.
FormShowsEarlierWage ==
  /\ forms["wage"].message.type = "success"
  /\ forms["wage"].currentWage # Null
  /\ forms["wage"].currentWage.effectiveDate = <<"2024-01-01">>
  /\ \A wage \in FirstWages(wages) : wage.effectiveDate = <<"2024-02-01">>

====
